---- MODULE Spec2Model ----
(***************************************************************************)
(* Risk-detection and metrics-aggregation engine of the sales monitoring   *)
(* application: the metrics aggregator (src/src/lib/metrics/computations.ts)*)
(* and the fraud rule engine (src/src/lib/fraud/rules.ts) over the order   *)
(* and cancellation tables.                                                *)
(*                                                                         *)
(* Numbers.  Money is kept in cents.  A rate that the code rounds with     *)
(* toFixed(4) is kept as an integer number of 1/10000, a ratio rounded     *)
(* with toFixed(2) as an integer number of 1/100.  Thresholds are scaled   *)
(* the same way where they are compared.                                   *)
(***************************************************************************)
EXTENDS Integers, Sequences, FiniteSets, TLC

VARIABLES
    orders,            \* table Order, in storage order
    cancellationLogs,  \* table CancellationLog
    auditFlags,        \* table AuditFlag
    window,            \* [from, to]: the period of the evaluation
    unit,              \* one rule check or aggregator call run on its own
    task,              \* the five checks of a runFraudDetectionRules call
    run,               \* the detectAndSaveFlags call
    visitLogs,         \* table VisitLog
    storage,           \* the storage bucket of visit photos: its object paths
    requests           \* the HTTP requests received, each with its handler's position

vars == <<orders, cancellationLogs, auditFlags, window, unit, task, run,
          visitLogs, storage, requests>>

NULL == "null"

\* a nullable number: <<>> is null, <<h>> holds h
NoNumber == <<>>
Some(h) == <<h>>

-----------------------------------------------------------------------------
(* Bounds of the model *)

\* largest number of orders of the generated count windows
MaxWindow == 20
\* largest number of ordinary orders of the outlet in the amount windows
MaxBase == 9

-----------------------------------------------------------------------------
(* Rule configuration: FRAUD_RULES *)

HIGH_CANCEL_RATE_WARN == 1500           \* 0.15 in 1/10000
HIGH_CANCEL_RATE_HIGH == 2500           \* 0.25 in 1/10000
END_OF_MONTH_SPIKE_WARN == 150          \* 1.5 in 1/100
END_OF_MONTH_SPIKE_HIGH == 200          \* 2.0 in 1/100
PRE_SHIP_CANCEL_HOURS == 24
PRE_SHIP_CANCEL_RATE_WARN == 1000       \* 0.1 in 1/10000
PRE_SHIP_CANCEL_RATE_HIGH == 2000       \* 0.2 in 1/10000
ABNORMAL_ORDER_MULTIPLIER_WARN == 3
ABNORMAL_ORDER_MULTIPLIER_HIGH == 5
MIN_ORDERS_FOR_ANALYSIS == 5

\* expectedPercentage = 0.1667, in 1/10000
ExpectedPercentage == 1667

\* saveAuditFlags: batchSize
BatchSize == 50

-----------------------------------------------------------------------------
(* Time.  A Date is [month, day, ms]: the ordinal of a calendar month, the *)
(* day of the month and the millisecond of the day (local time).           *)

MsPerDay == 1000 * 60 * 60 * 24

\* a sample calendar holding a month of every length
DaysInMonth == <<31, 28, 30, 29>>

Date(m, d, t) == [month |-> m, day |-> d, ms |-> t]

\* Date comparison (getTime() order)
DateLeq(a, b) ==
    \/ a.month < b.month
    \/ a.month = b.month /\ a.day < b.day
    \/ a.month = b.month /\ a.day = b.day /\ a.ms <= b.ms

\* prisma filter { gte: dateRange.from, lte: dateRange.to }
InRange(d, w) == DateLeq(w.from, d) /\ DateLeq(d, w.to)

\* date-fns endOfMonth: the last millisecond of the date's month
endOfMonth(date) == Date(date.month, DaysInMonth[date.month], MsPerDay - 1)

\* Math.ceil(a / b) for a >= 0, b > 0
Ceil(a, b) == (a + b - 1) \div b

isEndOfMonthDate_lt5(date) ==
    LET monthEnd == endOfMonth(date)
        daysFromEnd == (monthEnd.day - date.day) + Ceil(monthEnd.ms - date.ms, MsPerDay)
    IN  daysFromEnd < 5

\* isEndOfMonthDate.  monthEnd.getTime() - date.getTime() is
\* (monthEnd.day - date.day) whole days plus (monthEnd.ms - date.ms)
\* milliseconds, the latter in 0 .. MsPerDay - 1, so the ceiling of the
\* quotient by MsPerDay is the day difference plus the ceiling of the rest.
isEndOfMonthDate(date) ==
    LET monthEnd == endOfMonth(date)
        daysFromEnd == (monthEnd.day - date.day) + Ceil(monthEnd.ms - date.ms, MsPerDay)
    IN  daysFromEnd <= 5

-----------------------------------------------------------------------------
(* Numeric helpers *)

\* parseFloat((num / den).toFixed(digits)) for num >= 0, den > 0, as an
\* integer number of 1/scale (scale = 10^digits): the nearest, ties upward
Round(num, den, scale) == (2 * num * scale + den) \div (2 * den)

Range(s) == {s[i] : i \in 1..Len(s)}

\* [...values].sort((a, b) => a - b): position i holds the i-th smallest value
SortAscending(values) ==
    [i \in 1..Len(values) |->
        CHOOSE v \in Range(values) :
            /\ Cardinality({j \in 1..Len(values) : values[j] < v}) < i
            /\ i <= Cardinality({j \in 1..Len(values) : values[j] <= v})]

calculateMedian_upper(values) ==
    IF Len(values) = 0 THEN 0
    ELSE SortAscending(values)[(Len(values) \div 2) + 1]

\* calculateMedian (amounts are whole currency units in cents, so the mean
\* of two of them is a whole number of cents)
calculateMedian(values) ==
    IF Len(values) = 0 THEN 0
    ELSE LET sorted == SortAscending(values)
             mid == Len(values) \div 2      \* 0-based index in the code
         IN  IF Len(values) % 2 # 0
             THEN sorted[mid + 1]
             ELSE (sorted[mid] + sorted[mid + 1]) \div 2

\* Array.prototype.sort((a, b) => b.key - a.key): stable, descending by key.
\* keys[i] is the key of s[i]; Position(i) is the place s[i] is moved to:
\* after every element of a greater key and every earlier one of the same key.
SortDesc(s, keys) ==
    LET Position(i) ==
            Cardinality({j \in 1..Len(s) : keys[j] > keys[i]})
            + Cardinality({j \in 1..i : keys[j] = keys[i]})
    IN  [k \in 1..Len(s) |-> s[CHOOSE i \in 1..Len(s) : Position(i) = k]]

-----------------------------------------------------------------------------
(* Master data: tables SalesRep and Outlet *)

salesRepTable ==
    << [id |-> "R1", code |-> "SR001", name |-> "Rep 1", isActive |-> TRUE],
       [id |-> "R2", code |-> "SR002", name |-> "Rep 2", isActive |-> TRUE],
       [id |-> "R3", code |-> "SR003", name |-> "Rep 3", isActive |-> FALSE] >>

\* outlet O2 has no registered coordinate (latitude and longitude null)
outletTable ==
    << [id |-> "O1", code |-> "OUT001", name |-> "Outlet 1", isActive |-> TRUE,
        latitude |-> Some(0), longitude |-> Some(0)],
       [id |-> "O2", code |-> "OUT002", name |-> "Outlet 2", isActive |-> TRUE,
        latitude |-> NoNumber, longitude |-> NoNumber],
       [id |-> "O3", code |-> "OUT003", name |-> "Outlet 3", isActive |-> FALSE,
        latitude |-> Some(0), longitude |-> Some(0)] >>

OutletName(id) == (CHOOSE o \in Range(outletTable) : o.id = id).name

-----------------------------------------------------------------------------
(* Metrics aggregator.  Every operator reads the tables as they are when   *)
(* it is evaluated: one prisma query.  Revenue fields, which no rule       *)
(* reads, are left out of the rows.                                        *)

\* prisma.order.findMany({ where: { createdAt: { gte, lte } } })
OrdersInRange(w) ==
    LET Test(o) == InRange(o.createdAt, w) IN SelectSeq(orders, Test)

IsCancelled(o) == o.status = "CANCELLED"

\* cancelRate: totalOrders > 0 ? parseFloat((cancelled / total).toFixed(4)) : 0
CancelRate(cancelledOrders, totalOrders) ==
    IF totalOrders > 0 THEN Round(cancelledOrders, totalOrders, 10000) ELSE 0

IsActive(e) == e.isActive

\* prisma.x.findMany without orderBy: the rows in an order the database
\* chooses
AnyOrder(rows) ==
    LET n == Len(rows)
        orders_ == {q \in [1..n -> 1..n] : \A i, j \in 1..n : i # j => q[i] # q[j]}
    IN  {[i \in 1..n |-> rows[q[i]]] : q \in orders_}

\* getSalesRepMetrics after its query: salesReps.map(...).sort(...)
SalesRepMetricsOf(salesReps, w) ==
    LET Row(rep) ==
            LET Mine(o) == o.salesRepId = rep.id
                repOrders == SelectSeq(OrdersInRange(w), Mine)
                totalOrders == Len(repOrders)
                cancelledOrders == Len(SelectSeq(repOrders, IsCancelled))
            IN  [salesRepId |-> rep.id,
                 salesRepCode |-> rep.code,
                 salesRepName |-> rep.name,
                 totalOrders |-> totalOrders,
                 cancelledOrders |-> cancelledOrders,
                 cancelRate |-> CancelRate(cancelledOrders, totalOrders)]
        rows == [i \in 1..Len(salesReps) |-> Row(salesReps[i])]
    IN  SortDesc(rows, [i \in 1..Len(rows) |-> rows[i].cancelRate])

\* getSalesRepMetrics, the database returning the sales reps in table order
getSalesRepMetrics(w) == SalesRepMetricsOf(SelectSeq(salesRepTable, IsActive), w)

\* getOutletMetrics after its query: outlets.map(...).filter(...).sort(...)
OutletMetricsOf(outlets, w) ==
    LET Row(outlet) ==
            LET Mine(o) == o.outletId = outlet.id
                outletOrders == SelectSeq(OrdersInRange(w), Mine)
                totalOrders == Len(outletOrders)
                cancelledOrders == Len(SelectSeq(outletOrders, IsCancelled))
            IN  [outletId |-> outlet.id,
                 outletCode |-> outlet.code,
                 outletName |-> outlet.name,
                 totalOrders |-> totalOrders,
                 cancelledOrders |-> cancelledOrders,
                 cancelRate |-> CancelRate(cancelledOrders, totalOrders)]
        mapped == [i \in 1..Len(outlets) |-> Row(outlets[i])]
        HasOrders(r) == r.totalOrders > 0
        rows == SelectSeq(mapped, HasOrders)
    IN  SortDesc(rows, [i \in 1..Len(rows) |-> rows[i].cancelRate])

\* getOutletMetrics, the database returning the outlets in table order
getOutletMetrics(w) == OutletMetricsOf(SelectSeq(outletTable, IsActive), w)

IsDelivered(o) == o.status = "DELIVERED"

RECURSIVE SumAmounts(_)
\* reduce((sum, o) => sum + o.totalAmount, 0)
SumAmounts(os) ==
    IF os = <<>> THEN 0 ELSE Head(os).totalAmount + SumAmounts(Tail(os))

Revenue_AllStatuses(os) == SumAmounts(os)

\* totalRevenue: the amounts of the DELIVERED orders
Revenue(os) == SumAmounts(SelectSeq(os, IsDelivered))

\* getOrderMetrics; salesRepId and outletId are NULL when not passed.
\* Amounts are in cents: toFixed(2) leaves a sum of them as it is and rounds
\* the average to the cent.
getOrderMetrics(w, salesRepId, outletId) ==
    LET Where(o) ==
            /\ InRange(o.createdAt, w)
            /\ salesRepId # NULL => o.salesRepId = salesRepId
            /\ outletId # NULL => o.outletId = outletId
        found == SelectSeq(orders, Where)
        Has(status) == LET Test(o) == o.status = status IN Len(SelectSeq(found, Test))
        totalOrders == Len(found)
        deliveredOrders == Has("DELIVERED")
        cancelledOrders == Has("CANCELLED")
        totalRevenue == Revenue(found)
    IN  [totalOrders |-> totalOrders,
         deliveredOrders |-> deliveredOrders,
         cancelledOrders |-> cancelledOrders,
         createdOrders |-> Has("CREATED"),
         readyToShipOrders |-> Has("READY_TO_SHIP"),
         cancelRate |-> CancelRate(cancelledOrders, totalOrders),
         totalRevenue |-> totalRevenue,
         avgOrderValue |-> IF deliveredOrders > 0
                           THEN Round(totalRevenue, deliveredOrders, 1) ELSE 0]

\* spikeRatio: parseFloat((actualPercentage / expectedPercentage).toFixed(2))
\* with actualPercentage = endOfMonthOrders / totalOrders, in 1/100
SpikeRatio(endOfMonthOrders, totalOrders) ==
    IF totalOrders > 0
    THEN Round(endOfMonthOrders * 10000, ExpectedPercentage * totalOrders, 100)
    ELSE 0

analyzeEndOfMonthSpike(w) ==
    LET inRange == OrdersInRange(w)
        AtEnd(o) == isEndOfMonthDate(o.createdAt)
        totalOrders == Len(inRange)
        endOfMonthOrders == Len(SelectSeq(inRange, AtEnd))
    IN  [totalOrdersInPeriod |-> totalOrders,
         endOfMonthOrders |-> endOfMonthOrders,
         restOfMonthOrders |-> totalOrders - endOfMonthOrders,
         endOfMonthPercentage |->
             IF totalOrders > 0 THEN Round(endOfMonthOrders, totalOrders, 10000) ELSE 0,
         expectedPercentage |-> ExpectedPercentage,
         spikeRatio |-> SpikeRatio(endOfMonthOrders, totalOrders),
         \* hasSpike: the unrounded ratio > 1.5
         hasSpike |-> 2 * endOfMonthOrders * 10000 > 3 * ExpectedPercentage * totalOrders]

\* the filter of analyzePreShipCancellations
IsPreShip(c, thresholdHours) ==
    /\ c.hoursBeforeShipDate # NoNumber
    /\ c.hoursBeforeShipDate[1] <= thresholdHours
    /\ c.hoursBeforeShipDate[1] >= 0

analyzePreShipCancellations(w, thresholdHours) ==
    LET InWin(c) == InRange(c.cancelledAt, w)
        cancellations == SelectSeq(cancellationLogs, InWin)
        PreShip(c) == IsPreShip(c, thresholdHours)
        totalCancellations == Len(cancellations)
        preShipCancellations == Len(SelectSeq(cancellations, PreShip))
        reasons == {cancellations[i].reason : i \in 1..Len(cancellations)}
    IN  [totalCancellations |-> totalCancellations,
         preShipCancellations |-> preShipCancellations,
         preShipPercentage |->
             IF totalCancellations > 0
             THEN Round(preShipCancellations, totalCancellations, 10000)
             ELSE 0,
         byReason |->
             [r \in reasons |->
                 Cardinality({i \in 1..Len(cancellations) : cancellations[i].reason = r})]]

\* the amounts of the orders of one outlet, in query order
AmountsOf(inRange, outletId) ==
    LET Mine(o) == o.outletId = outletId
        mine == SelectSeq(inRange, Mine)
    IN  [i \in 1..Len(mine) |-> mine[i].totalAmount]

IsAbnormal_Strict(amount, median, thresholdMultiplier) ==
    median > 0 /\ amount > thresholdMultiplier * median

\* median > 0 and amount / median >= thresholdMultiplier
IsAbnormal(amount, median, thresholdMultiplier) ==
    median > 0 /\ amount >= thresholdMultiplier * median

\* outletMedians is the Map of the code, as its set of entries <<outletId, median>>
findAbnormalOrders(w, thresholdMultiplier) ==
    LET inRange == OrdersInRange(w)
        outletIds == {inRange[i].outletId : i \in 1..Len(inRange)}
        outletMedians == {<<id, calculateMedian(AmountsOf(inRange, id))>> : id \in outletIds}
        MedianOf(id) == (CHOOSE entry \in outletMedians : entry[1] = id)[2]
        Abnormal(o) == IsAbnormal(o.totalAmount, MedianOf(o.outletId), thresholdMultiplier)
        hits == SelectSeq(inRange, Abnormal)
        abnormalOrders ==
            [i \in 1..Len(hits) |->
                [orderId |-> hits[i].id,
                 orderNumber |-> hits[i].orderNumber,
                 outletId |-> hits[i].outletId,
                 outletName |-> OutletName(hits[i].outletId),
                 orderAmount |-> hits[i].totalAmount,
                 outletMedian |-> MedianOf(hits[i].outletId),
                 ratio |-> Round(hits[i].totalAmount, MedianOf(hits[i].outletId), 100)]]
    IN  SortDesc(abnormalOrders, [i \in 1..Len(abnormalOrders) |-> abnormalOrders[i].ratio])

-----------------------------------------------------------------------------
(* Rule engine: the five checks.  A flag's message is kept as the record   *)
(* of the quantities the template interpolates, each under the name the    *)
(* evidence payload (meta) uses for it.                                    *)

Flag(entityType, entityId, ruleCode, severity, message, meta, orderId) ==
    [entityType |-> entityType, entityId |-> entityId, ruleCode |-> ruleCode,
     severity |-> severity, message |-> message, meta |-> meta, orderId |-> orderId]

RECURSIVE Flatten(_)
Flatten(ss) == IF ss = <<>> THEN <<>> ELSE Head(ss) \o Flatten(Tail(ss))

CancelRateSeverity_NoGate(totalOrders, cancelRate) ==
    IF cancelRate >= HIGH_CANCEL_RATE_HIGH THEN "HIGH"
    ELSE IF cancelRate >= HIGH_CANCEL_RATE_WARN THEN "WARN"
    ELSE "NONE"

\* the branch taken for one row of checkSalesRepCancelRates / checkOutletCancelRates
CancelRateSeverity(totalOrders, cancelRate) ==
    IF totalOrders < MIN_ORDERS_FOR_ANALYSIS THEN "NONE"
    ELSE IF cancelRate >= HIGH_CANCEL_RATE_HIGH THEN "HIGH"
    ELSE IF cancelRate >= HIGH_CANCEL_RATE_WARN THEN "WARN"
    ELSE "NONE"

checkSalesRepCancelRates(metrics) ==
    LET FlagsOf(rep) ==
            LET severity == CancelRateSeverity(rep.totalOrders, rep.cancelRate)
                meta == [salesRepCode |-> rep.salesRepCode,
                         salesRepName |-> rep.salesRepName,
                         cancelRate |-> rep.cancelRate,
                         totalOrders |-> rep.totalOrders,
                         cancelledOrders |-> rep.cancelledOrders]
            IN  IF severity = "HIGH"
                THEN << Flag("SALES_REP", rep.salesRepId, "HIGH_CANCEL_RATE", "HIGH",
                             [salesRepCode |-> rep.salesRepCode,
                              cancelRate |-> rep.cancelRate,
                              cancelledOrders |-> rep.cancelledOrders,
                              totalOrders |-> rep.totalOrders],
                             meta, NULL) >>
                ELSE IF severity = "WARN"
                THEN << Flag("SALES_REP", rep.salesRepId, "HIGH_CANCEL_RATE", "WARN",
                             [salesRepCode |-> rep.salesRepCode,
                              cancelRate |-> rep.cancelRate],
                             meta, NULL) >>
                ELSE <<>>
    IN  Flatten([i \in 1..Len(metrics) |-> FlagsOf(metrics[i])])

checkOutletCancelRates(metrics) ==
    LET FlagsOf(outlet) ==
            LET severity == CancelRateSeverity(outlet.totalOrders, outlet.cancelRate)
                meta == [outletCode |-> outlet.outletCode,
                         outletName |-> outlet.outletName,
                         cancelRate |-> outlet.cancelRate,
                         totalOrders |-> outlet.totalOrders,
                         cancelledOrders |-> outlet.cancelledOrders]
            IN  IF severity = "HIGH"
                THEN << Flag("OUTLET", outlet.outletId, "HIGH_CANCEL_RATE", "HIGH",
                             [outletCode |-> outlet.outletCode,
                              cancelRate |-> outlet.cancelRate,
                              cancelledOrders |-> outlet.cancelledOrders,
                              totalOrders |-> outlet.totalOrders],
                             meta, NULL) >>
                ELSE IF severity = "WARN"
                THEN << Flag("OUTLET", outlet.outletId, "HIGH_CANCEL_RATE", "WARN",
                             [outletCode |-> outlet.outletCode,
                              cancelRate |-> outlet.cancelRate],
                             meta, NULL) >>
                ELSE <<>>
    IN  Flatten([i \in 1..Len(metrics) |-> FlagsOf(metrics[i])])

\* the branch taken by checkEndOfMonthSpike
SpikeSeverity(analysis) ==
    IF analysis.totalOrdersInPeriod < MIN_ORDERS_FOR_ANALYSIS THEN "NONE"
    ELSE IF analysis.spikeRatio >= END_OF_MONTH_SPIKE_HIGH THEN "HIGH"
    ELSE IF analysis.spikeRatio >= END_OF_MONTH_SPIKE_WARN THEN "WARN"
    ELSE "NONE"

checkEndOfMonthSpike(analysis) ==
    LET severity == SpikeSeverity(analysis)
    IN  IF severity = "HIGH"
        THEN << Flag("ORDER", "SYSTEM", "END_OF_MONTH_SPIKE", "HIGH",
                     [endOfMonthOrders |-> analysis.endOfMonthOrders,
                      percentage |-> analysis.endOfMonthPercentage,
                      spikeRatio |-> analysis.spikeRatio],
                     [endOfMonthOrders |-> analysis.endOfMonthOrders,
                      restOfMonthOrders |-> analysis.restOfMonthOrders,
                      percentage |-> analysis.endOfMonthPercentage,
                      spikeRatio |-> analysis.spikeRatio,
                      expectedPercentage |-> analysis.expectedPercentage],
                     NULL) >>
        ELSE IF severity = "WARN"
        THEN << Flag("ORDER", "SYSTEM", "END_OF_MONTH_SPIKE", "WARN",
                     [endOfMonthOrders |-> analysis.endOfMonthOrders,
                      percentage |-> analysis.endOfMonthPercentage],
                     [endOfMonthOrders |-> analysis.endOfMonthOrders,
                      restOfMonthOrders |-> analysis.restOfMonthOrders,
                      percentage |-> analysis.endOfMonthPercentage,
                      spikeRatio |-> analysis.spikeRatio],
                     NULL) >>
        ELSE <<>>

\* the branch taken by checkPreShipCancellations
PreShipSeverity(analysis) ==
    IF analysis.totalCancellations < MIN_ORDERS_FOR_ANALYSIS THEN "NONE"
    ELSE IF analysis.preShipPercentage >= PRE_SHIP_CANCEL_RATE_HIGH THEN "HIGH"
    ELSE IF analysis.preShipPercentage >= PRE_SHIP_CANCEL_RATE_WARN THEN "WARN"
    ELSE "NONE"

checkPreShipCancellations(analysis) ==
    LET severity == PreShipSeverity(analysis)
    IN  IF severity = "HIGH"
        THEN << Flag("ORDER", "SYSTEM", "PRE_SHIP_CANCEL", "HIGH",
                     [preShipCancellations |-> analysis.preShipCancellations,
                      percentage |-> analysis.preShipPercentage,
                      thresholdHours |-> PRE_SHIP_CANCEL_HOURS],
                     [preShipCancellations |-> analysis.preShipCancellations,
                      totalCancellations |-> analysis.totalCancellations,
                      percentage |-> analysis.preShipPercentage,
                      thresholdHours |-> PRE_SHIP_CANCEL_HOURS,
                      byReason |-> analysis.byReason],
                     NULL) >>
        ELSE IF severity = "WARN"
        THEN << Flag("ORDER", "SYSTEM", "PRE_SHIP_CANCEL", "WARN",
                     [preShipCancellations |-> analysis.preShipCancellations,
                      thresholdHours |-> PRE_SHIP_CANCEL_HOURS],
                     [preShipCancellations |-> analysis.preShipCancellations,
                      totalCancellations |-> analysis.totalCancellations,
                      percentage |-> analysis.preShipPercentage],
                     NULL) >>
        ELSE <<>>

AbnormalFlag(order, severity) ==
    Flag("ORDER", order.orderId, "ABNORMAL_ORDER_SIZE", severity,
         [orderNumber |-> order.orderNumber,
          ratio |-> order.ratio,
          orderAmount |-> order.orderAmount,
          outletMedian |-> order.outletMedian],
         [orderNumber |-> order.orderNumber,
          outletId |-> order.outletId,
          outletName |-> order.outletName,
          orderAmount |-> order.orderAmount,
          outletMedian |-> order.outletMedian,
          ratio |-> order.ratio],
         order.orderId)

AlreadyHigh_Never(highAbnormal, order) == FALSE

\* highOrderIds.has(order.orderId)
AlreadyHigh(highAbnormal, order) ==
    order.orderId \in {highAbnormal[i].orderId : i \in 1..Len(highAbnormal)}

\* checkAbnormalOrders, given the results of its two findAbnormalOrders calls
checkAbnormalOrders(highAbnormal, warnAbnormal) ==
    LET NotHigh(order) == ~AlreadyHigh(highAbnormal, order)
        warnOnly == SelectSeq(warnAbnormal, NotHigh)
    IN  [i \in 1..Len(highAbnormal) |-> AbnormalFlag(highAbnormal[i], "HIGH")]
        \o [i \in 1..Len(warnOnly) |-> AbnormalFlag(warnOnly[i], "WARN")]

-----------------------------------------------------------------------------
(* Datasets: the tables an evaluation can find.  The evaluation period is  *)
(* month 3 of the sample calendar (30 days).                               *)

Period == [from |-> Date(3, 1, 0), to |-> Date(4, 1, 0)]

MidDate == Date(3, 10, MsPerDay \div 2)     \* not at the end of the month
EndDate == Date(3, 28, MsPerDay \div 2)     \* in the last days of the month
OldDate == Date(2, 27, MsPerDay \div 2)     \* before the period

Order(id, salesRepId, outletId, status, totalAmount, createdAt) ==
    [id |-> ToString(id), orderNumber |-> "ORD-" \o ToString(id), salesRepId |-> salesRepId, outletId |-> outletId,
     status |-> status, totalAmount |-> totalAmount, createdAt |-> createdAt]

CancellationLog(orderId, reason, hoursBeforeShipDate, cancelledAt) ==
    [orderId |-> ToString(orderId), reason |-> reason,
     hoursBeforeShipDate |-> hoursBeforeShipDate, cancelledAt |-> cancelledAt]

OpenStatuses == <<"DELIVERED", "CREATED", "READY_TO_SHIP">>
Reasons == <<"CUSTOMER_REQUEST", "OUT_OF_STOCK", "OTHER">>
\* hoursBeforeShipDate: within the 24 h before the planned ship date; and
\* after the ship date, without a planned ship date, more than 24 h before
PreShipHours == <<Some(0), Some(12), Some(24)>>
OtherHours == <<Some(-3), NoNumber, Some(25)>>

Cycle(seq, i) == seq[(i % Len(seq)) + 1]

\* a count window: n orders of rep R1 at outlet O1, the first c of them
\* cancelled (each with its log, the first j logs pre-ship), the first e of
\* them created in the last days of the month
CountOrders(n, c, e) ==
    [i \in 1..n |->
        Order(i, "R1", "O1",
              IF i <= c THEN "CANCELLED" ELSE Cycle(OpenStatuses, i),
              10000,
              IF i <= e THEN EndDate ELSE MidDate)]

CountLogs(c, j) ==
    [i \in 1..c |->
        CancellationLog(i, Cycle(Reasons, i),
                        IF i <= j THEN Cycle(PreShipHours, i) ELSE Cycle(OtherHours, i),
                        MidDate)]

\* further rows: rep R2 at outlet O2 with 8 orders, 2 cancelled; the
\* inactive rep R3 at the inactive outlet O3 with 6 orders, 3 cancelled; and
\* one cancelled order of R1 at O1 from before the period
BackgroundOrders(first) ==
    [i \in 1..8 |->
        Order(first + i, "R2", "O2", IF i <= 2 THEN "CANCELLED" ELSE "DELIVERED",
              10000, MidDate)]
    \o [i \in 1..6 |->
        Order(first + 8 + i, "R3", "O3", IF i <= 3 THEN "CANCELLED" ELSE "CREATED",
              10000, MidDate)]
    \o << Order(first + 15, "R1", "O1", "CANCELLED", 10000, OldDate) >>

BackgroundLogs(first) ==
    [i \in 1..2 |-> CancellationLog(first + i, "OTHER", Some(48), MidDate)]
    \o [i \in 1..3 |-> CancellationLog(first + 8 + i, "OTHER", NoNumber, MidDate)]
    \o << CancellationLog(first + 15, "OTHER", Some(12), OldDate) >>

CountDataset(n, c, j, e, background) ==
    [orders |-> CountOrders(n, c, e)
                \o (IF background THEN BackgroundOrders(n) ELSE <<>>),
     logs |-> CountLogs(c, j)
              \o (IF background THEN BackgroundLogs(n) ELSE <<>>)]

\* every count window up to MaxWindow orders
SmallCountDatasets ==
    LET counts == {p \in (0..MaxWindow) \X (0..MaxWindow) \X (0..MaxWindow) :
                       p[2] <= p[1] /\ p[3] <= p[2]}
    IN  {CountDataset(p[1], p[2], p[3], p[2], bg) : p \in counts, bg \in BOOLEAN}

\* count windows at which a rounded rate reaches a threshold that the
\* exact quotient does not reach
LargeCountDatasets ==
    { CountDataset(321, 0, 0, 80, FALSE),        \* 80 of 321 orders at month end
      CountDataset(2001, 2001, 200, 0, FALSE),   \* 200 of 2001 cancellations pre-ship
      CountDataset(1007, 151, 0, 0, FALSE) }     \* 151 of 1007 orders cancelled

\* an amount window: outlet O1 with b orders of 100.00 and up to two
\* further orders of amounts x and y (0: absent); outlet O2 with orders of
\* 0.00, 0.00 and 50.00, whose median is 0
ExtraAmounts == {0, 29900, 30000, 49900, 50000, 60000}
SecondAmounts == {0, 30000, 60000}

AmountOrders(b, x, y) ==
    LET base == [i \in 1..b |-> Order(i, "R1", "O1", "DELIVERED", 10000, MidDate)]
        ex == IF x = 0 THEN <<>>
              ELSE << Order(b + 1, "R1", "O1", "DELIVERED", x, MidDate) >>
        ey == IF y = 0 THEN <<>>
              ELSE << Order(b + 2, "R2", "O1", "CREATED", y, MidDate) >>
        zero == << Order(b + 3, "R2", "O2", "DELIVERED", 0, MidDate),
                   Order(b + 4, "R2", "O2", "DELIVERED", 0, MidDate),
                   Order(b + 5, "R2", "O2", "DELIVERED", 5000, MidDate) >>
    IN  ey \o base \o ex \o zero

AmountDatasets ==
    {[orders |-> AmountOrders(b, x, y), logs |-> <<>>] :
        b \in 0..MaxBase, x \in ExtraAmounts, y \in SecondAmounts}

-----------------------------------------------------------------------------
(* One rule check, or one aggregator call, run on its own over the tables. *)
(* unit.metrics is what the aggregator returned to it, unit.flags what it  *)
(* returned.                                                                *)

NoUnit == [rule |-> "none", arg |-> 0, metrics |-> <<>>, flags |-> <<>>]

\* summary of runFraudDetectionRules: the flags counted by severity
Summary(allFlags) ==
    LET Of(severity) ==
            Cardinality({i \in 1..Len(allFlags) : allFlags[i].severity = severity})
    IN  [totalFlags |-> Len(allFlags),
         highSeverity |-> Of("HIGH"),
         warnSeverity |-> Of("WARN"),
         infoSeverity |-> Of("INFO")]

\* the callers of the engine: POST /api/flags (detectAndSaveFlags), the
\* server action runFraudDetectionAction, and the AI summary (the route
\* POST /api/ai/anti-fraud-summary and generateAISummaryAction run the same
\* steps)
Callers == {"detectAndSaveFlags", "runFraudDetectionAction", "summary"}

\* a call that has been accepted and has not run yet: flags and summary are
\* the RuleResult, next and created the i and created of saveAuditFlags,
\* returned the flags handed back to the caller
Idle == [pc |-> "idle", caller |-> "detectAndSaveFlags", call |-> 1,
         flags |-> <<>>, summary |-> Summary(<<>>), next |-> 1, created |-> 0,
         returned |-> <<>>]

\* the server clock while the calls run
Now == Date(4, 2, MsPerDay \div 2)

\* the row createMany stores for a flag: id, createdAt (now) and isResolved
\* (false) are set by the table's defaults
Persisted(flag, n) == [id |-> ToString(n), createdAt |-> Now, isResolved |-> FALSE] @@ flag
NoTasks == [t \in {"salesRep", "outlet", "endOfMonth", "preShip", "abnormal"} |->
               [pc |-> "idle", high |-> <<>>, flags |-> <<>>]]

InitTables(datasets) ==
    /\ \E d \in datasets : orders = d.orders /\ cancellationLogs = d.logs
    /\ auditFlags = <<>>
    /\ window = Period
    /\ unit = NoUnit
    /\ task = NoTasks
    /\ run = Idle
    /\ visitLogs = <<>>
    /\ storage = {}
    /\ requests = <<>>

UnitDone(rule, arg, metrics, flags) ==
    /\ unit.rule = "none"
    /\ unit' = [rule |-> rule, arg |-> arg, metrics |-> metrics, flags |-> flags]
    /\ UNCHANGED <<orders, cancellationLogs, auditFlags, window, task, run, visitLogs, storage, requests>>

RunSalesRepCheck ==
    LET metrics == getSalesRepMetrics(window)
    IN  UnitDone("salesRep", 0, metrics, checkSalesRepCancelRates(metrics))

RunOutletCheck ==
    LET metrics == getOutletMetrics(window)
    IN  UnitDone("outlet", 0, metrics, checkOutletCancelRates(metrics))

RunEndOfMonthCheck ==
    LET analysis == analyzeEndOfMonthSpike(window)
    IN  UnitDone("endOfMonth", 0, analysis, checkEndOfMonthSpike(analysis))

RunPreShipCheck ==
    LET analysis == analyzePreShipCancellations(window, PRE_SHIP_CANCEL_HOURS)
    IN  UnitDone("preShip", PRE_SHIP_CANCEL_HOURS, analysis,
                 checkPreShipCancellations(analysis))

\* checkAbnormalOrders over tables that do not change between its two queries
RunAbnormalCheck ==
    LET highAbnormal == findAbnormalOrders(window, ABNORMAL_ORDER_MULTIPLIER_HIGH)
        warnAbnormal == findAbnormalOrders(window, ABNORMAL_ORDER_MULTIPLIER_WARN)
    IN  UnitDone("abnormal", 0, [high |-> highAbnormal, warn |-> warnAbnormal],
                 checkAbnormalOrders(highAbnormal, warnAbnormal))

\* findAbnormalOrders(from, to, multiplier)
RunFindAbnormalOrders ==
    \E multiplier \in {2, ABNORMAL_ORDER_MULTIPLIER_WARN, ABNORMAL_ORDER_MULTIPLIER_HIGH} :
        UnitDone("findAbnormal", multiplier, findAbnormalOrders(window, multiplier), <<>>)

UnitNext ==
    \/ RunSalesRepCheck
    \/ RunOutletCheck
    \/ RunEndOfMonthCheck
    \/ RunPreShipCheck
    \/ RunAbnormalCheck
    \/ RunFindAbnormalOrders

\* every check on its own, over every dataset
SpecUnit ==
    InitTables(SmallCountDatasets \cup LargeCountDatasets \cup AmountDatasets)
    /\ [][UnitNext]_vars

-----------------------------------------------------------------------------
(* Every date of the sample calendar, at the first and last milliseconds   *)
(* of the day and at noon: one order created at that date, evaluated over  *)
(* a window that holds the whole calendar.                                 *)

TimesOfDay == {0, 1, MsPerDay \div 2, MsPerDay - 2, MsPerDay - 1}

AllDates ==
    {dt \in {Date(m, d, t) : m \in 1..Len(DaysInMonth), d \in 1..31, t \in TimesOfDay} :
        dt.day <= DaysInMonth[dt.month]}

Calendar ==
    [from |-> Date(1, 1, 0),
     to |-> Date(Len(DaysInMonth), DaysInMonth[Len(DaysInMonth)], MsPerDay - 1)]

InitDates ==
    /\ \E d \in AllDates : orders = << Order(1, "R1", "O1", "CREATED", 10000, d) >>
    /\ cancellationLogs = <<>>
    /\ auditFlags = <<>>
    /\ window = Calendar
    /\ unit = NoUnit
    /\ task = NoTasks
    /\ run = Idle
    /\ visitLogs = <<>>
    /\ storage = {}
    /\ requests = <<>>

SpecDates == InitDates /\ [][RunEndOfMonthCheck]_vars

-----------------------------------------------------------------------------
(* detectAndSaveFlags: runFraudDetectionRules starts the five checks under *)
(* Promise.all; each check awaits its aggregator query (checkAbnormalOrders*)
(* two of them, one after the other) and any query may fail; the joined    *)
(* flags are saved in batches.                                             *)

TaskOrder_Reversed == <<"abnormal", "preShip", "endOfMonth", "outlet", "salesRep">>

\* the order of the five checks in Promise.all and in allFlags
TaskOrder == <<"salesRep", "outlet", "endOfMonth", "preShip", "abnormal">>

\* 65 orders of 100.00 and 55 of 600.00 at one outlet: 55 abnormal orders,
\* more flags than one batch holds
ManyAbnormalOrders ==
    [i \in 1..120 |->
        Order(i, "R1", "O1", "DELIVERED", IF i <= 65 THEN 10000 ELSE 60000, MidDate)]

\* a window in which every check finds something: rep R1 at outlet O1 with
\* 20 orders, 6 cancelled (1 of the 6 pre-ship), 12 created at the end of
\* the month, and rep R2 at outlet O2 with five orders of 100.00, one of
\* 300.00 and one of 600.00
AllRulesDataset ==
    [orders |-> CountOrders(20, 6, 12)
                \o [i \in 1..7 |->
                       Order(100 + i, "R2", "O2", "DELIVERED",
                             IF i = 6 THEN 30000 ELSE IF i = 7 THEN 60000 ELSE 10000,
                             MidDate)],
     logs |-> CountLogs(6, 1)]

BatchDatasets ==
    { AllRulesDataset,
      CountDataset(20, 6, 3, 6, TRUE),
      CountDataset(10, 1, 1, 1, TRUE),
      CountDataset(4, 4, 4, 4, FALSE),
      CountDataset(0, 0, 0, 0, FALSE),
      [orders |-> AmountOrders(9, 60000, 30000), logs |-> <<>>],
      [orders |-> ManyAbnormalOrders, logs |-> <<>>] }

Settle(t, pc, high, flags) ==
    task' = [task EXCEPT ![t] = [pc |-> pc, high |-> high, flags |-> flags]]

\* detectAndSaveFlags calls runFraudDetectionRules, which calls the five
\* checks; each runs up to the await of its first query
StartRun ==
    /\ run.pc = "idle"
    /\ run.caller # "summary"
    /\ run' = [run EXCEPT !.pc = "running"]
    /\ task' = [t \in DOMAIN task |-> [task[t] EXCEPT !.pc = "pending"]]
    /\ UNCHANGED <<orders, cancellationLogs, auditFlags, window, unit, visitLogs, storage, requests>>

SalesRepCheckReturns ==
    /\ task["salesRep"].pc = "pending"
    /\ Settle("salesRep", "fulfilled", <<>>,
              checkSalesRepCancelRates(getSalesRepMetrics(window)))
    /\ UNCHANGED <<orders, cancellationLogs, auditFlags, window, unit, run, visitLogs, storage, requests>>

OutletCheckReturns ==
    /\ task["outlet"].pc = "pending"
    /\ Settle("outlet", "fulfilled", <<>>,
              checkOutletCancelRates(getOutletMetrics(window)))
    /\ UNCHANGED <<orders, cancellationLogs, auditFlags, window, unit, run, visitLogs, storage, requests>>

EndOfMonthCheckReturns ==
    /\ task["endOfMonth"].pc = "pending"
    /\ Settle("endOfMonth", "fulfilled", <<>>,
              checkEndOfMonthSpike(analyzeEndOfMonthSpike(window)))
    /\ UNCHANGED <<orders, cancellationLogs, auditFlags, window, unit, run, visitLogs, storage, requests>>

PreShipCheckReturns ==
    /\ task["preShip"].pc = "pending"
    /\ Settle("preShip", "fulfilled", <<>>,
              checkPreShipCancellations(
                  analyzePreShipCancellations(window, PRE_SHIP_CANCEL_HOURS)))
    /\ UNCHANGED <<orders, cancellationLogs, auditFlags, window, unit, run, visitLogs, storage, requests>>

\* checkAbnormalOrders: the query at the HIGH multiplier returns
AbnormalHighQueryReturns ==
    /\ task["abnormal"].pc = "pending"
    /\ Settle("abnormal", "pending2",
              findAbnormalOrders(window, ABNORMAL_ORDER_MULTIPLIER_HIGH), <<>>)
    /\ UNCHANGED <<orders, cancellationLogs, auditFlags, window, unit, run, visitLogs, storage, requests>>

\* checkAbnormalOrders: the query at the WARN multiplier returns
AbnormalWarnQueryReturns ==
    /\ task["abnormal"].pc = "pending2"
    /\ Settle("abnormal", "fulfilled", task["abnormal"].high,
              checkAbnormalOrders(task["abnormal"].high,
                  findAbnormalOrders(window, ABNORMAL_ORDER_MULTIPLIER_WARN)))
    /\ UNCHANGED <<orders, cancellationLogs, auditFlags, window, unit, run, visitLogs, storage, requests>>

\* the query a check awaits throws (a storage error): no check catches it
QueryFails ==
    \E t \in DOMAIN task :
        /\ task[t].pc \in {"pending", "pending2"}
        /\ Settle(t, "rejected", task[t].high, <<>>)
        /\ UNCHANGED <<orders, cancellationLogs, auditFlags, window, unit, run, visitLogs, storage, requests>>

AllFulfilled_Settled(tasks) ==
    \A t \in DOMAIN tasks : tasks[t].pc \in {"fulfilled", "rejected"}

\* Promise.all resolves when every promise has been fulfilled
AllFulfilled(tasks) == \A t \in DOMAIN tasks : tasks[t].pc = "fulfilled"

\* Promise.all rejects as soon as one promise has been rejected
SomeRejected(tasks) == \E t \in DOMAIN tasks : tasks[t].pc = "rejected"

\* allFlags: the five lists spread in the fixed order
AllFlags(tasks) == Flatten([i \in 1..Len(TaskOrder) |-> tasks[TaskOrder[i]].flags])

\* runFraudDetectionRules returns; detectAndSaveFlags saves if there are flags
RulesReturn ==
    /\ run.pc = "running"
    /\ run.caller # "summary"
    /\ AllFulfilled(task)
    /\ LET allFlags == AllFlags(task)
       IN  run' = [run EXCEPT !.pc = IF Len(allFlags) > 0 THEN "saving" ELSE "done",
                              !.flags = allFlags, !.summary = Summary(allFlags)]
    /\ UNCHANGED <<orders, cancellationLogs, auditFlags, window, unit, task, visitLogs, storage, requests>>

\* runFraudDetectionRules throws, and detectAndSaveFlags with it
RulesThrow ==
    /\ run.pc = "running"
    /\ SomeRejected(task)
    /\ run' = [run EXCEPT !.pc = "rejected"]
    /\ UNCHANGED <<orders, cancellationLogs, auditFlags, window, unit, task, visitLogs, storage, requests>>

Slice_Short(flags, i) ==
    SubSeq(flags, i, IF i + BatchSize - 2 < Len(flags) THEN i + BatchSize - 2 ELSE Len(flags))

\* flags.slice(i, i + batchSize), i counted from 1
Slice(flags, i) ==
    SubSeq(flags, i, IF i + BatchSize - 1 < Len(flags) THEN i + BatchSize - 1 ELSE Len(flags))

\* saveAuditFlags: one createMany of flags.slice(i, i + batchSize)
SaveBatch ==
    /\ run.pc = "saving"
    /\ LET batch == Slice(run.flags, run.next)
       IN  /\ auditFlags' = auditFlags \o
                  [k \in 1..Len(batch) |-> Persisted(batch[k], Len(auditFlags) + k)]
           /\ run' = [run EXCEPT !.next = run.next + BatchSize,
                                 !.created = run.created + Len(batch),
                                 !.pc = IF run.next + BatchSize <= Len(run.flags)
                                        THEN "saving" ELSE "done"]
    /\ UNCHANGED <<orders, cancellationLogs, window, unit, task, visitLogs, storage, requests>>

\* saveAuditFlags: a createMany throws
SaveFails ==
    /\ run.pc = "saving"
    /\ run' = [run EXCEPT !.pc = "saveFailed"]
    /\ UNCHANGED <<orders, cancellationLogs, auditFlags, window, unit, task, visitLogs, storage, requests>>

\* the lines written with console.log by runFraudDetectionRules and
\* detectAndSaveFlags up to the position r.pc, each as the record of the
\* values its template interpolates
ConsoleLog(r, w) ==
    (IF r.pc # "idle"
     THEN << [text |-> "Running fraud detection rules for period",
              from |-> w.from, to |-> w.to] >>
     ELSE <<>>)
    \o (IF r.pc \in {"saving", "saveFailed", "done"}
        THEN << [text |-> "Generated flags",
                 totalFlags |-> r.summary.totalFlags,
                 highSeverity |-> r.summary.highSeverity,
                 warnSeverity |-> r.summary.warnSeverity] >>
        ELSE <<>>)
    \o (IF r.pc = "done" /\ Len(r.flags) > 0
        THEN << [text |-> "Saved flags to database", savedCount |-> r.created] >>
        ELSE <<>>)

Next ==
    \/ StartRun
    \/ SalesRepCheckReturns
    \/ OutletCheckReturns
    \/ EndOfMonthCheckReturns
    \/ PreShipCheckReturns
    \/ AbnormalHighQueryReturns
    \/ AbnormalWarnQueryReturns
    \/ QueryFails
    \/ RulesReturn
    \/ RulesThrow
    \/ SaveBatch
    \/ SaveFails

Init == InitTables(BatchDatasets)

Spec == Init /\ [][Next]_vars

-----------------------------------------------------------------------------
(* Visits: POST /api/visits/check-in.  A request is kept in requests from  *)
(* its arrival, with the handler's locals, its position (pc) and, once it  *)
(* has answered, the HTTP status of its response.                          *)

\* largest number of check-in requests
MaxCheckIns == 2

\* MAX_VERIFIED_DISTANCE = 200 meters, in 1/10 m
MAX_VERIFIED_DISTANCE == 2000

Abs(x) == IF x < 0 THEN -x ELSE x

\* calculateDistance (haversine) for two points of one meridian, where it is
\* R * |dLat|: coordinates are measured in 1/10 m of arc along the meridian,
\* the distance in 1/10 m.  Every sample point has longitude 0.
calculateDistance(lat1, lon1, lat2, lon2) == Abs(lat2 - lat1)

\* the check-in latitudes: at 200 m, just beyond 200 m, and at 250 m
CheckInLatitudes == {2000, 2001, 2500}

\* ids a request can name: the rows of the tables and one id of no row
SalesRepIds == {"R1", "R2", "R3", "R9"}
OutletIds == {"O1", "O2", "O3", "O9"}

\* prisma.x.findUnique({ where: { id } }): the row, or <<>> when there is none
FindUnique(table, id) ==
    LET Match(row) == row.id = id IN SelectSeq(table, Match)

VisitId(n) == "V" \o ToString(n)

InitialStatus_Strict(distance) ==
    IF distance < MAX_VERIFIED_DISTANCE THEN "PENDING" ELSE "FLAGGED"

\* const status = distance <= MAX_VERIFIED_DISTANCE ? 'PENDING' : 'FLAGGED'
InitialStatus(distance) ==
    IF distance <= MAX_VERIFIED_DISTANCE THEN "PENDING" ELSE "FLAGGED"

\* let distance = 0; if the outlet has a coordinate, the distance to it
DistanceTo(outlet, latitude, longitude) ==
    IF outlet.latitude # NoNumber /\ outlet.longitude # NoNumber
    THEN calculateDistance(latitude, longitude, outlet.latitude[1], outlet.longitude[1])
    ELSE 0

\* the row prisma.visitLog.create writes: no photo yet
NewVisit(visitId, salesRepId, outletId, latitude, longitude, distance, status) ==
    [id |-> visitId, salesRepId |-> salesRepId, outletId |-> outletId,
     latitude |-> latitude, longitude |-> longitude, distance |-> distance,
     status |-> status, photoPath |-> NULL, photoSha256 |-> NULL]

\* a row of auditFlag created by a visit route
VisitFlag(visitId, ruleCode, severity, message, meta) ==
    [entityType |-> "VISIT", entityId |-> visitId, ruleCode |-> ruleCode,
     severity |-> severity, message |-> message, meta |-> meta, visitLogId |-> visitId]

DistanceFlag(visitId, latitude, longitude, outlet, distance) ==
    VisitFlag(visitId, "DISTANCE_TOO_FAR", "WARN",
              [distance |-> distance, threshold |-> MAX_VERIFIED_DISTANCE],
              [checkInLat |-> latitude, checkInLng |-> longitude,
               outletLat |-> outlet.latitude, outletLng |-> outlet.longitude,
               distance |-> distance, threshold |-> MAX_VERIFIED_DISTANCE])

CheckInRequests == {i \in 1..Len(requests) : requests[i].kind = "checkIn"}

Answer(i, response) ==
    requests' = [requests EXCEPT ![i] = [@ EXCEPT !.pc = "done", !.response = response]]

\* the handler up to and including prisma.visitLog.create: the sales rep and
\* the outlet are looked up (the tables SalesRep and Outlet do not change)
CheckInCreatesVisit ==
    \E salesRepId \in SalesRepIds, outletId \in OutletIds, latitude \in CheckInLatitudes :
        LET salesRep == FindUnique(salesRepTable, salesRepId)
            outlet == FindUnique(outletTable, outletId)
            request == [kind |-> "checkIn", salesRepId |-> salesRepId,
                        outletId |-> outletId, latitude |-> latitude, longitude |-> 0,
                        pc |-> "done", response |-> 0, visitId |-> NULL,
                        distance |-> 0, status |-> NULL]
            Rejected(code) ==
                /\ requests' = Append(requests, [request EXCEPT !.response = code])
                /\ UNCHANGED visitLogs
        IN  /\ Cardinality(CheckInRequests) < MaxCheckIns
            /\ IF salesRep = <<>> THEN Rejected(404)
               ELSE IF ~salesRep[1].isActive THEN Rejected(403)
               ELSE IF outlet = <<>> THEN Rejected(404)
               ELSE IF ~outlet[1].isActive THEN Rejected(403)
               ELSE LET distance == DistanceTo(outlet[1], latitude, 0)
                        status == InitialStatus(distance)
                        visitId == VisitId(Len(visitLogs) + 1)
                    IN  /\ visitLogs' = Append(visitLogs,
                               NewVisit(visitId, salesRepId, outletId, latitude, 0,
                                        distance, status))
                        /\ requests' = Append(requests,
                               [request EXCEPT !.visitId = visitId, !.distance = distance,
                                               !.status = status,
                                               !.pc = IF distance > MAX_VERIFIED_DISTANCE
                                                      THEN "flag" ELSE "done",
                                               !.response = IF distance > MAX_VERIFIED_DISTANCE
                                                            THEN 0 ELSE 201])
            /\ UNCHANGED <<orders, cancellationLogs, auditFlags, window, unit, task, run, storage>>

\* prisma.auditFlag.create of the DISTANCE_TOO_FAR flag, then the response
CheckInCreatesFlag ==
    \E i \in CheckInRequests :
        /\ requests[i].pc = "flag"
        /\ auditFlags' = Append(auditFlags,
               DistanceFlag(requests[i].visitId, requests[i].latitude, requests[i].longitude,
                            FindUnique(outletTable, requests[i].outletId)[1],
                            requests[i].distance))
        /\ Answer(i, 201)
        /\ UNCHANGED <<orders, cancellationLogs, window, unit, task, run, visitLogs, storage>>

\* prisma.auditFlag.create throws: the catch answers 500, the visit stays
CheckInFlagFails ==
    \E i \in CheckInRequests :
        /\ requests[i].pc = "flag"
        /\ Answer(i, 500)
        /\ UNCHANGED <<orders, cancellationLogs, auditFlags, window, unit, task, run,
                       visitLogs, storage>>

InitVisits ==
    /\ orders = <<>>
    /\ cancellationLogs = <<>>
    /\ auditFlags = <<>>
    /\ window = Period
    /\ unit = NoUnit
    /\ task = NoTasks
    /\ run = Idle
    /\ visitLogs = <<>>
    /\ storage = {}
    /\ requests = <<>>

VisitsNext ==
    \/ CheckInCreatesVisit
    \/ CheckInCreatesFlag
    \/ CheckInFlagFails

SpecVisits == InitVisits /\ [][VisitsNext]_vars

-----------------------------------------------------------------------------
(* Visits: POST /api/visits/[id]/photo.  The handler awaits the visit, the *)
(* duplicate lookup, the storage upload, the update of the visit and the   *)
(* creation of the flag one after the other; requests of other clients     *)
(* run between any two of them.                                            *)

\* largest number of photo-upload requests
MaxUploads == 2

\* largest number of visits an external reviewer rejects
MaxRejections == 1

\* a check-in that has answered, as requests records it
CheckedIn(n, salesRepId, outletId, latitude, response) ==
    LET outlet == FindUnique(outletTable, outletId)[1]
        distance == DistanceTo(outlet, latitude, 0)
    IN  [kind |-> "checkIn", salesRepId |-> salesRepId, outletId |-> outletId,
         latitude |-> latitude, longitude |-> 0, pc |-> "done", response |-> response,
         visitId |-> VisitId(n), distance |-> distance, status |-> InitialStatus(distance)]

\* the visits uploads are made for: three check-ins that answered 201 (two
\* of rep R1, one 250 m from its outlet, and one of rep R2), or the same
\* with the distance flag of the second failing to be written (500)
CheckInsDone ==
    { << CheckedIn(1, "R1", "O1", 2000, 201),
         CheckedIn(2, "R1", "O1", 2500, response),
         CheckedIn(3, "R2", "O2", 2500, 201) >> : response \in {201, 500} }

VisitsOfCheckIns(done) ==
    [i \in DOMAIN done |->
        NewVisit(done[i].visitId, done[i].salesRepId, done[i].outletId, done[i].latitude,
                 done[i].longitude, done[i].distance, done[i].status)]

FlagsOfCheckIns(done) ==
    LET FlagOf(r) ==
            IF r.distance > MAX_VERIFIED_DISTANCE /\ r.response = 201
            THEN << DistanceFlag(r.visitId, r.latitude, r.longitude,
                                 FindUnique(outletTable, r.outletId)[1], r.distance) >>
            ELSE <<>>
    IN  Flatten([i \in DOMAIN done |-> FlagOf(done[i])])

UploadVisitIds == {"V1", "V2", "V3", "V9"}
PhotoBytes == {"A", "B"}
ContentTypes == {"image/jpeg", "image/png", "image/gif"}

\* validateFile: ALLOWED_TYPES (every sample file is within the size limit)
validateFile(contentType) == contentType \in {"image/jpeg", "image/png"}

getExtensionFromContentType(contentType) ==
    IF contentType = "image/png" THEN "png" ELSE "jpg"

\* createHash('sha256').update(fileBuffer).digest('hex'): equal exactly for
\* equal bytes
Sha256(bytes) == "sha256:" \o bytes

\* the day of the uploads (format(now, 'yyyy/MM/dd'))
Today == "2024/03/10"

\* objectPath of uploadVisitPhoto
ObjectPath(visitId, salesRepId, outletId, ext) ==
    << "visits", Today, salesRepId, outletId, visitId, ext >>

UploadRequests == {i \in 1..Len(requests) : requests[i].kind = "upload"}

\* the uploads that have answered, in the order of their answers
Finished == Cardinality({i \in UploadRequests : requests[i].pc = "done"})

Respond(i, response) ==
    requests' = [requests EXCEPT ![i] = [@ EXCEPT !.pc = "done", !.response = response,
                                                   !.finished = Finished + 1]]

Goto(i, pc) == requests' = [requests EXCEPT ![i] = [@ EXCEPT !.pc = pc]]

UploadStatus_Keep(visitLog) ==
    IF visitLog.distance <= MAX_VERIFIED_DISTANCE THEN visitLog.status ELSE "FLAGGED"

\* updateData.status: by the distance of the visit as it was read
UploadStatus(visitLog) ==
    IF visitLog.distance <= MAX_VERIFIED_DISTANCE THEN "VERIFIED" ELSE "FLAGGED"

\* the request arrives; validateFile; prisma.visitLog.findUnique; 404, 409
UploadReadsVisit ==
    \E visitId \in UploadVisitIds, bytes \in PhotoBytes, contentType \in ContentTypes :
        LET visitLog == FindUnique(visitLogs, visitId)
            request == [kind |-> "upload", visitId |-> visitId, bytes |-> bytes,
                        contentType |-> contentType, pc |-> "done", response |-> 0,
                        finished |-> Finished + 1, visitLog |-> NULL,
                        photoSha256 |-> NULL, duplicatePhoto |-> NULL, path |-> NULL]
        IN  /\ Cardinality(UploadRequests) < MaxUploads
            /\ requests' = Append(requests,
                   IF ~validateFile(contentType) THEN [request EXCEPT !.response = 400]
                   ELSE IF visitLog = <<>> THEN [request EXCEPT !.response = 404]
                   ELSE IF visitLog[1].photoPath # NULL THEN [request EXCEPT !.response = 409]
                   ELSE [request EXCEPT !.pc = "findFirst", !.finished = 0,
                                        !.visitLog = visitLog[1],
                                        !.photoSha256 = Sha256(bytes)])
            /\ UNCHANGED <<orders, cancellationLogs, auditFlags, window, unit, task, run,
                           visitLogs, storage>>

\* the visits prisma.visitLog.findFirst can return: same sales rep, same
\* hash, another id
DuplicatesOf(r) ==
    {v \in Range(visitLogs) :
        /\ v.salesRepId = r.visitLog.salesRepId
        /\ v.photoSha256 = r.photoSha256
        /\ v.id # r.visitId}

\* prisma.visitLog.findFirst without orderBy: any of the matching rows, the
\* choice being the database's; null when there is none
UploadFindsDuplicate ==
    \E i \in UploadRequests :
        /\ requests[i].pc = "findFirst"
        /\ \E found \in (IF DuplicatesOf(requests[i]) = {} THEN {NULL}
                         ELSE {v.id : v \in DuplicatesOf(requests[i])}) :
               requests' = [requests EXCEPT ![i] =
                               [@ EXCEPT !.pc = "upload", !.duplicatePhoto = found]]
        /\ UNCHANGED <<orders, cancellationLogs, auditFlags, window, unit, task, run,
                       visitLogs, storage>>

\* uploadVisitPhoto with upsert: false: an object that exists is not
\* overwritten, the error is thrown and the catch answers 500
UploadStoresPhoto ==
    \E i \in UploadRequests :
        LET r == requests[i]
            path == ObjectPath(r.visitId, r.visitLog.salesRepId, r.visitLog.outletId,
                               getExtensionFromContentType(r.contentType))
        IN  /\ r.pc = "upload"
            /\ IF path \in storage
               THEN Respond(i, 500) /\ UNCHANGED storage
               ELSE /\ storage' = storage \cup {path}
                    /\ requests' = [requests EXCEPT ![i] =
                                       [@ EXCEPT !.pc = "update", !.path = path]]
            /\ UNCHANGED <<orders, cancellationLogs, auditFlags, window, unit, task, run,
                           visitLogs>>

\* prisma.visitLog.update({ where: { id: visitId }, data: updateData }), and
\* the response when no duplicate was found
UploadUpdatesVisit ==
    \E i \in UploadRequests :
        LET r == requests[i]
            Updated(v) ==
                IF v.id = r.visitId
                THEN [v EXCEPT !.photoPath = r.path, !.photoSha256 = r.photoSha256,
                               !.status = UploadStatus(r.visitLog)]
                ELSE v
        IN  /\ r.pc = "update"
            /\ visitLogs' = [k \in DOMAIN visitLogs |-> Updated(visitLogs[k])]
            /\ IF r.duplicatePhoto # NULL THEN Goto(i, "flag") ELSE Respond(i, 200)
            /\ UNCHANGED <<orders, cancellationLogs, auditFlags, window, unit, task, run,
                           storage>>

DuplicateFlag(r) ==
    VisitFlag(r.visitId, "DUPLICATE_PHOTO", "HIGH",
              [originalOutlet |->
                   (CHOOSE v \in Range(visitLogs) : v.id = r.duplicatePhoto).outletId],
              [originalVisitId |-> r.duplicatePhoto,
               originalOutlet |->
                   (CHOOSE v \in Range(visitLogs) : v.id = r.duplicatePhoto).outletId,
               sha256 |-> r.photoSha256])

\* prisma.auditFlag.create of the DUPLICATE_PHOTO flag, then the response
UploadCreatesFlag ==
    \E i \in UploadRequests :
        /\ requests[i].pc = "flag"
        /\ auditFlags' = Append(auditFlags, DuplicateFlag(requests[i]))
        /\ Respond(i, 200)
        /\ UNCHANGED <<orders, cancellationLogs, window, unit, task, run, visitLogs, storage>>

\* prisma.auditFlag.create throws: the catch answers 500, photo and status stay
UploadFlagFails ==
    \E i \in UploadRequests :
        /\ requests[i].pc = "flag"
        /\ Respond(i, 500)
        /\ UNCHANGED <<orders, cancellationLogs, auditFlags, window, unit, task, run,
                       visitLogs, storage>>

\* an external reviewer sets a visit to REJECTED (no code of the repository)
ReviewerRejects ==
    \E k \in DOMAIN visitLogs :
        /\ visitLogs[k].status # "REJECTED"
        /\ Cardinality({j \in DOMAIN visitLogs : visitLogs[j].status = "REJECTED"})
               < MaxRejections
        /\ visitLogs' = [visitLogs EXCEPT ![k].status = "REJECTED"]
        /\ UNCHANGED <<orders, cancellationLogs, auditFlags, window, unit, task, run,
                       storage, requests>>

InitPhotos ==
    /\ orders = <<>>
    /\ cancellationLogs = <<>>
    /\ window = Period
    /\ unit = NoUnit
    /\ task = NoTasks
    /\ run = Idle
    /\ storage = {}
    /\ \E done \in CheckInsDone :
           /\ requests = done
           /\ visitLogs = VisitsOfCheckIns(done)
           /\ auditFlags = FlagsOfCheckIns(done)

PhotosNext ==
    \/ UploadReadsVisit
    \/ UploadFindsDuplicate
    \/ UploadStoresPhoto
    \/ UploadUpdatesVisit
    \/ UploadCreatesFlag
    \/ UploadFlagFails

SpecPhotos == InitPhotos /\ [][PhotosNext]_vars

\* the uploads, with a reviewer at work
ReviewNext ==
    \/ PhotosNext
    \/ ReviewerRejects

SpecReview == InitPhotos /\ [][ReviewNext]_vars

-----------------------------------------------------------------------------
(* Orders: POST /api/orders, PATCH /api/orders/[id] and POST               *)
(* /api/orders/[id]/cancel.  Each handler reads, decides on what it read   *)
(* and writes in a later step; other requests run in between.              *)

\* largest number of order-creation requests
MaxOrders == 1

\* largest number of PATCH and cancel requests
MaxOrderRequests == 3

\* VALID_TRANSITIONS
VALID_TRANSITIONS(status) ==
    IF status = "CREATED" THEN {"READY_TO_SHIP", "CANCELLED"}
    ELSE IF status = "READY_TO_SHIP" THEN {"DELIVERED", "CANCELLED"}
    ELSE {}

OrderIds == {"1", "9"}
NewStatuses == {NULL, "CREATED", "READY_TO_SHIP", "DELIVERED", "CANCELLED"}
PlannedShipDates == {NULL, "planned"}

\* dateStr of the day of the requests
DateStr == "20240310"

\* String(n).padStart(4, '0')
PadStart4(n) ==
    IF n < 10 THEN "000" \o ToString(n)
    ELSE IF n < 100 THEN "00" \o ToString(n)
    ELSE IF n < 1000 THEN "0" \o ToString(n)
    ELSE ToString(n)

\* (plannedShipDate - now) / 1 h: null without a planned ship date, else as
\* the time of the request has it, here 12 h or 30 h before
HoursBeforeShipDate(plannedShipDate) ==
    IF plannedShipDate = NULL THEN {NoNumber} ELSE {Some(12), Some(30)}

CreateRequests == {i \in 1..Len(requests) : requests[i].kind = "create"}
StatusRequests == {i \in 1..Len(requests) : requests[i].kind \in {"patch", "cancel"}}

\* POST /api/orders up to prisma.order.count: the sales rep and the outlet
\* are looked up, the orders numbered for the day are counted
CreateArrives(max) ==
    \E salesRepId \in {"R1", "R9"}, outletId \in {"O1", "O9"},
       plannedShipDate \in PlannedShipDates :
        LET request == [kind |-> "create", salesRepId |-> salesRepId,
                        outletId |-> outletId, plannedShipDate |-> plannedShipDate,
                        pc |-> "done", response |-> 0, existingCount |-> 0]
            HasPrefix(o) == /\ Len(o.orderNumber) >= 12
                            /\ SubSeq(o.orderNumber, 1, 12) = "ORD-" \o DateStr
        IN  /\ Cardinality(CreateRequests) < max
            /\ requests' = Append(requests,
                   IF FindUnique(salesRepTable, salesRepId) = <<>>
                      \/ FindUnique(outletTable, outletId) = <<>>
                   THEN [request EXCEPT !.response = 404]
                   ELSE [request EXCEPT !.pc = "create",
                                        !.existingCount = Len(SelectSeq(orders, HasPrefix))])
            /\ UNCHANGED <<orders, cancellationLogs, auditFlags, window, unit, task, run,
                           visitLogs, storage>>

OrderCreateCounts == CreateArrives(MaxOrders)

\* prisma.order.create: status CREATED, the number from the count
OrderCreateCreates ==
    \E i \in CreateRequests :
        LET r == requests[i]
            order == [id |-> ToString(Len(orders) + 1),
                      orderNumber |-> "ORD-" \o DateStr \o "-" \o PadStart4(r.existingCount + 1),
                      salesRepId |-> r.salesRepId, outletId |-> r.outletId,
                      status |-> "CREATED", totalAmount |-> 10000, createdAt |-> MidDate,
                      plannedShipDate |-> r.plannedShipDate]
        IN  /\ r.pc = "create"
            /\ orders' = Append(orders, order)
            /\ Answer(i, 201)
            /\ UNCHANGED <<cancellationLogs, auditFlags, window, unit, task, run,
                           visitLogs, storage>>

\* prisma.$transaction([order.update({ status: 'CANCELLED' }),
\* cancellationLog.create]): both writes or, when the order already has its
\* cancellation record (the relation is one-to-one), neither and an error
CancelTransaction(i, reason) ==
    LET id == requests[i].id
        HasLog == \E k \in DOMAIN cancellationLogs : cancellationLogs[k].orderId = id
        Cancelled(o) == IF o.id = id THEN [o EXCEPT !.status = "CANCELLED"] ELSE o
    IN  IF HasLog
        THEN Answer(i, 500) /\ UNCHANGED <<orders, cancellationLogs>>
        ELSE /\ orders' = [k \in DOMAIN orders |-> Cancelled(orders[k])]
             /\ cancellationLogs' = Append(cancellationLogs,
                    [orderId |-> id, reason |-> reason,
                     hoursBeforeShipDate |-> requests[i].hoursBeforeShipDate,
                     cancelledAt |-> MidDate])
             /\ Answer(i, 200)

\* PATCH up to its write: findUnique, newStatus, the transition from the
\* status read, cancellationReason, hoursBeforeShipDate
PatchReadsOrder ==
    \E id \in OrderIds, newStatus \in NewStatuses, cancellationReason \in {NULL, "OTHER"} :
        LET order == FindUnique(orders, id)
            request == [kind |-> "patch", id |-> id, newStatus |-> newStatus,
                        reason |-> cancellationReason, pc |-> "done", response |-> 0,
                        read |-> NULL, hoursBeforeShipDate |-> NoNumber]
        IN  /\ Cardinality(StatusRequests) < MaxOrderRequests
            /\ cancellationReason # NULL => newStatus = "CANCELLED"
            /\ IF order = <<>> THEN requests' = Append(requests, [request EXCEPT !.response = 404])
               ELSE IF newStatus = NULL
                       \/ newStatus \notin VALID_TRANSITIONS(order[1].status)
                       \/ (newStatus = "CANCELLED" /\ cancellationReason = NULL)
               THEN requests' = Append(requests,
                        [request EXCEPT !.response = 400, !.read = order[1].status])
               ELSE \E hours \in (IF newStatus = "CANCELLED"
                                  THEN HoursBeforeShipDate(order[1].plannedShipDate)
                                  ELSE {NoNumber}) :
                        requests' = Append(requests,
                            [request EXCEPT !.pc = "write", !.read = order[1].status,
                                            !.hoursBeforeShipDate = hours])
            /\ UNCHANGED <<orders, cancellationLogs, auditFlags, window, unit, task, run,
                           visitLogs, storage>>

\* PATCH writes: the transaction for CANCELLED, else prisma.order.update
PatchWritesOrder ==
    \E i \in StatusRequests :
        LET r == requests[i]
            Updated(o) == IF o.id = r.id THEN [o EXCEPT !.status = r.newStatus] ELSE o
        IN  /\ r.kind = "patch" /\ r.pc = "write"
            /\ IF r.newStatus = "CANCELLED"
               THEN CancelTransaction(i, r.reason)
               ELSE /\ orders' = [k \in DOMAIN orders |-> Updated(orders[k])]
                    /\ Answer(i, 200)
                    /\ UNCHANGED cancellationLogs
            /\ UNCHANGED <<auditFlags, window, unit, task, run, visitLogs, storage>>

\* POST cancel up to its write: findUnique, CANCELLED and DELIVERED refused
CancelReadsOrder ==
    \E id \in OrderIds :
        LET order == FindUnique(orders, id)
            request == [kind |-> "cancel", id |-> id, newStatus |-> "CANCELLED",
                        reason |-> "CUSTOMER_REQUEST", pc |-> "done", response |-> 0,
                        read |-> NULL, hoursBeforeShipDate |-> NoNumber]
        IN  /\ Cardinality(StatusRequests) < MaxOrderRequests
            /\ IF order = <<>> THEN requests' = Append(requests, [request EXCEPT !.response = 404])
               ELSE IF order[1].status \in {"CANCELLED", "DELIVERED"}
               THEN requests' = Append(requests,
                        [request EXCEPT !.response = 400, !.read = order[1].status])
               ELSE \E hours \in HoursBeforeShipDate(order[1].plannedShipDate) :
                        requests' = Append(requests,
                            [request EXCEPT !.pc = "write", !.read = order[1].status,
                                            !.hoursBeforeShipDate = hours])
            /\ UNCHANGED <<orders, cancellationLogs, auditFlags, window, unit, task, run,
                           visitLogs, storage>>

\* POST cancel writes: the transaction
CancelWritesOrder ==
    \E i \in StatusRequests :
        /\ requests[i].kind = "cancel" /\ requests[i].pc = "write"
        /\ CancelTransaction(i, requests[i].reason)
        /\ UNCHANGED <<auditFlags, window, unit, task, run, visitLogs, storage>>

OrdersNext ==
    \/ OrderCreateCounts
    \/ OrderCreateCreates
    \/ PatchReadsOrder
    \/ PatchWritesOrder
    \/ CancelReadsOrder
    \/ CancelWritesOrder

SpecOrders == InitVisits /\ [][OrdersNext]_vars

\* largest number of POST /api/orders requests in flight on one day
MaxCreates == 3

\* POST /api/orders, several requests on the same day
ConcurrentCreateCounts == CreateArrives(MaxCreates)

\* prisma.order.create throws when the database refuses the row: the
\* outcome of a unique index on orderNumber, if the schema declares one; the
\* catch answers 500 and no order is created
OrderCreateRejected ==
    \E i \in CreateRequests :
        LET number == "ORD-" \o DateStr \o "-" \o PadStart4(requests[i].existingCount + 1)
        IN  /\ requests[i].pc = "create"
            /\ \E k \in DOMAIN orders : orders[k].orderNumber = number
            /\ Answer(i, 500)
            /\ UNCHANGED <<orders, cancellationLogs, auditFlags, window, unit, task, run,
                           visitLogs, storage>>

\* the schema is not part of the sources: with a unique index the create of
\* a number that exists is rejected, without one it is stored
NumbersNext ==
    \/ ConcurrentCreateCounts
    \/ OrderCreateCreates
    \/ OrderCreateRejected

SpecNumbers == InitVisits /\ [][NumbersNext]_vars

-----------------------------------------------------------------------------
(* calculateMedian on its own: the caller's array before the call is       *)
(* unit.arg; the array after the call and the value returned are in        *)
(* unit.metrics.                                                           *)

\* largest length of an array passed to calculateMedian
MaxValues == 4

\* amounts in cents (whole currency units)
MedianValues == {0, 100, 200, 500}

MedianInputs ==
    UNION {[1..n -> MedianValues] : n \in 0..MaxValues}

\* const sorted = [...values].sort(...): the spread copies, the sort is of
\* the copy, so the array passed in is afterwards what it was
ValuesAfterCall(values) == values

InitMedian ==
    /\ orders = <<>>
    /\ cancellationLogs = <<>>
    /\ auditFlags = <<>>
    /\ window = Period
    /\ \E values \in MedianInputs : unit = [NoUnit EXCEPT !.arg = values]
    /\ task = NoTasks
    /\ run = Idle
    /\ visitLogs = <<>>
    /\ storage = {}
    /\ requests = <<>>

RunMedian ==
    UnitDone("calculateMedian", unit.arg,
             [median |-> calculateMedian(unit.arg), values |-> ValuesAfterCall(unit.arg)],
             <<>>)

SpecMedian == InitMedian /\ [][RunMedian]_vars

-----------------------------------------------------------------------------
(* The aggregator's metrics functions, each called on its own over the     *)
(* tables; unit.arg holds the arguments, unit.metrics what was returned.   *)

MetricDatasets == SmallCountDatasets \cup AmountDatasets

RunOrderMetrics ==
    \E salesRepId \in {NULL, "R1"}, outletId \in {NULL, "O2"} :
        UnitDone("orderMetrics", [salesRepId |-> salesRepId, outletId |-> outletId],
                 getOrderMetrics(window, salesRepId, outletId), <<>>)

RunSalesRepMetrics ==
    \E salesReps \in AnyOrder(SelectSeq(salesRepTable, IsActive)) :
        UnitDone("salesRepMetrics", 0, SalesRepMetricsOf(salesReps, window), <<>>)

\* getOutletMetrics called twice over the same tables and window
RunOutletMetricsTwice ==
    \E first, second \in AnyOrder(SelectSeq(outletTable, IsActive)) :
        UnitDone("outletMetrics", 0,
                 << OutletMetricsOf(first, window), OutletMetricsOf(second, window) >>, <<>>)

MetricsNext ==
    \/ RunOrderMetrics
    \/ RunSalesRepMetrics
    \/ RunOutletMetricsTwice

SpecMetrics == InitTables(MetricDatasets) /\ [][MetricsNext]_vars

-----------------------------------------------------------------------------
(* getExistingFlags, called on its own over a table of audit flags;        *)
(* unit.arg holds the arguments, unit.metrics the rows returned.           *)

\* take: 500
Take == 500

\* a row of AuditFlag as stored: id, createdAt and isResolved are columns of
\* the table
StoredFlag(n, entityType, ruleCode, severity, createdAt, isResolved) ==
    [id |-> n, entityType |-> entityType, entityId |-> "E", ruleCode |-> ruleCode,
     severity |-> severity, createdAt |-> createdAt, isResolved |-> isResolved]

\* the order of the enum FlagSeverity (INFO, WARN, HIGH), which orderBy
\* severity follows
SeverityRank(severity) ==
    IF severity = "HIGH" THEN 3 ELSE IF severity = "WARN" THEN 2 ELSE 1

\* flags of every severity, in and out of the period, resolved or not, two
\* of them created with the same severity at the same instant
FlagPool ==
    << StoredFlag(1, "SALES_REP", "HIGH_CANCEL_RATE", "WARN", MidDate, FALSE),
       StoredFlag(2, "ORDER", "ABNORMAL_ORDER_SIZE", "HIGH", MidDate, FALSE),
       StoredFlag(3, "ORDER", "ABNORMAL_ORDER_SIZE", "HIGH", EndDate, TRUE),
       StoredFlag(4, "SALES_REP", "HIGH_CANCEL_RATE", "WARN", MidDate, FALSE),
       StoredFlag(5, "VISIT", "DISTANCE_TOO_FAR", "INFO", OldDate, FALSE),
       StoredFlag(6, "ORDER", "ABNORMAL_ORDER_SIZE", "WARN", Date(4, 2, 0), FALSE) >>

\* the tables made of rows of the pool, in the order of the pool
SmallFlagTables ==
    LET Pick(S) == LET Test(f) == f.id \in S IN SelectSeq(FlagPool, Test)
    IN  {Pick(S) : S \in SUBSET (1..Len(FlagPool))}

\* a table of 560 flags, 513 of them created in the period and unresolved
LargeFlagTable ==
    [i \in 1..560 |->
        StoredFlag(i, "ORDER", "ABNORMAL_ORDER_SIZE",
                   Cycle(<<"HIGH", "WARN", "INFO">>, i),
                   IF i <= 540 THEN Date(3, 1 + (i % 25), 0) ELSE OldDate,
                   i % 20 = 0)]

\* the queries (from, to and isResolved are <<>> when not passed): no filter, each filter alone, a range of which one end only
\* is passed, and the filters together
NoFilter ==
    [from |-> NoNumber, to |-> NoNumber, entityType |-> NULL, severity |-> NULL,
     ruleCode |-> NULL, isResolved |-> NoNumber]

FlagQueries ==
    { NoFilter,
      [NoFilter EXCEPT !.from = Some(Period.from), !.to = Some(Period.to)],
      [NoFilter EXCEPT !.from = Some(Period.from)],
      [NoFilter EXCEPT !.to = Some(Period.to)],
      [NoFilter EXCEPT !.entityType = "ORDER"],
      [NoFilter EXCEPT !.severity = "WARN"],
      [NoFilter EXCEPT !.ruleCode = "HIGH_CANCEL_RATE"],
      [NoFilter EXCEPT !.isResolved = Some(FALSE)],
      [NoFilter EXCEPT !.isResolved = Some(TRUE)],
      [from |-> Some(Period.from), to |-> Some(Period.to), entityType |-> "ORDER",
       severity |-> NULL, ruleCode |-> "ABNORMAL_ORDER_SIZE", isResolved |-> Some(FALSE)],
      [from |-> Some(Period.from), to |-> Some(Period.to), entityType |-> "ORDER",
       severity |-> "HIGH", ruleCode |-> "ABNORMAL_ORDER_SIZE", isResolved |-> Some(FALSE)] }

\* whereClause
WhereClause(f, q) ==
    /\ (q.from # NoNumber /\ q.to # NoNumber) =>
           (DateLeq(q.from[1], f.createdAt) /\ DateLeq(f.createdAt, q.to[1]))
    /\ q.entityType # NULL => f.entityType = q.entityType
    /\ q.severity # NULL => f.severity = q.severity
    /\ q.ruleCode # NULL => f.ruleCode = q.ruleCode
    /\ q.isResolved # NoNumber => f.isResolved = q.isResolved[1]

\* orderBy: [{ severity: 'desc' }, { createdAt: 'desc' }]; rows equal in
\* both are in an order the database chooses, here the order of the table
\* (ties = "asc") or its reverse
OrderBy(found, ties) ==
    LET n == Len(found)
        Before(a, b) ==
            \/ SeverityRank(a.severity) > SeverityRank(b.severity)
            \/ a.severity = b.severity /\ ~DateLeq(a.createdAt, b.createdAt)
        Tied(a, b) == a.severity = b.severity /\ a.createdAt = b.createdAt
        Position(i) ==
            Cardinality({j \in 1..n : Before(found[j], found[i])})
            + Cardinality({j \in 1..n : /\ Tied(found[j], found[i])
                                         /\ IF ties = "asc" THEN j <= i ELSE j >= i})
        placed == {<< Position(i), i >> : i \in 1..n}
    IN  [k \in 1..n |-> found[(CHOOSE p \in placed : p[1] = k)[2]]]

TakeFirst_All(rows) == rows

TakeFirst(rows) == SubSeq(rows, 1, IF Len(rows) < Take THEN Len(rows) ELSE Take)

getExistingFlags(q, ties) ==
    LET Where(f) == WhereClause(f, q)
    IN  TakeFirst(OrderBy(SelectSeq(auditFlags, Where), ties))

InitFlags ==
    /\ orders = <<>>
    /\ cancellationLogs = <<>>
    /\ auditFlags \in SmallFlagTables \cup {LargeFlagTable}
    /\ window = Period
    /\ unit = NoUnit
    /\ task = NoTasks
    /\ run = Idle
    /\ visitLogs = <<>>
    /\ storage = {}
    /\ requests = <<>>

RunGetExistingFlags ==
    \E q \in FlagQueries, ties \in {"asc", "desc"} :
        UnitDone("getExistingFlags", q, getExistingFlags(q, ties), <<>>)

\* z.coerce.boolean(): Boolean(input), true for every string but the
\* empty one
CoerceBoolean(input) == input # ""

\* the values of the query parameter isResolved (NULL: not passed)
IsResolvedParams == {NULL, "", "true", "false", "0"}

\* GET /api/flags?isResolved=...: searchParams.get('isResolved') ||
\* undefined, parsed with FlagsQuerySchema, passed to getExistingFlags
GetFlags ==
    \E param \in IsResolvedParams, ties \in {"asc", "desc"} :
        LET isResolved == IF param \in {NULL, ""} THEN NoNumber
                          ELSE Some(CoerceBoolean(param))
            flags == getExistingFlags([NoFilter EXCEPT !.isResolved = isResolved], ties)
        IN  UnitDone("GET /api/flags", [isResolved |-> param], flags, <<>>)

FlagsNext ==
    \/ RunGetExistingFlags
    \/ GetFlags

SpecFlags == InitFlags /\ [][FlagsNext]_vars

-----------------------------------------------------------------------------
(* detectAndSaveFlags while POST /api/orders requests are served: an order *)
(* can be created between any two queries of the evaluation.               *)

\* one outlet with orders of 100.00, 140.00 and 600.00 (median 140.00, and
\* 120.00 once another order of 100.00 exists), and an outlet with nine
\* orders of 100.00, one of 300.00 and one of 600.00
RaceDatasets ==
    { [orders |-> << Order(1, "R1", "O1", "DELIVERED", 10000, MidDate),
                     Order(2, "R1", "O1", "DELIVERED", 14000, MidDate),
                     Order(3, "R1", "O1", "DELIVERED", 60000, MidDate) >>,
       logs |-> <<>>],
      [orders |-> AmountOrders(9, 60000, 30000), logs |-> <<>>] }

AbnormalNext ==
    \/ Next
    \/ OrderCreateCounts
    \/ OrderCreateCreates

SpecAbnormal == InitTables(RaceDatasets) /\ [][AbnormalNext]_vars

-----------------------------------------------------------------------------
(* The callers of the engine, one call after the other over tables that    *)
(* do not change otherwise: POST /api/flags, runFraudDetectionAction and   *)
(* the AI summary.  Each call evaluates the window with the five checks of *)
(* runFraudDetectionRules, interleaved as under Promise.all.               *)

\* number of calls made one after the other
MaxCalls == 2

\* the period, which lies before the server clock; the window from the
\* start of the period to the start of the day of the server clock (the
\* page's dateTo is the date of today); and a window that ends after the
\* server clock
TodayWindow == [from |-> Period.from, to |-> Date(Now.month, Now.day, 0)]
CurrentWindow == [from |-> Period.from, to |-> Date(4, 29, MsPerDay - 1)]
CallWindows == {Period, TodayWindow, CurrentWindow}

\* windows with flags of several rules, with abnormal orders, and with none
CallDatasets ==
    { CountDataset(20, 6, 3, 6, TRUE),
      CountDataset(4, 4, 4, 4, FALSE),
      [orders |-> AmountOrders(9, 60000, 30000), logs |-> <<>>] }

\* getExistingFlags(from, to)
WindowQuery(w) == [NoFilter EXCEPT !.from = Some(w.from), !.to = Some(w.to)]

\* the row the summary makes of a flag of the RuleResult
Generated(flag) ==
    [id |-> "generated", createdAt |-> Now, isResolved |-> FALSE] @@ flag

\* runFraudDetectionAction: detectAndSaveFlags has returned; the action
\* returns getExistingFlags(from, to)
ActionReadsFlags ==
    /\ run.pc = "done"
    /\ run.caller = "runFraudDetectionAction"
    /\ \E ties \in {"asc", "desc"} :
           run' = [run EXCEPT !.pc = "returned",
                              !.returned = getExistingFlags(WindowQuery(window), ties)]
    /\ UNCHANGED <<orders, cancellationLogs, auditFlags, window, unit, task, visitLogs, storage, requests>>

\* the summary: getMetricsSummary (reads only), then getExistingFlags(from,
\* to); with no flags found it calls runFraudDetectionRules, otherwise it
\* goes on with the flags found
SummaryReadsFlags ==
    /\ run.pc = "idle"
    /\ run.caller = "summary"
    /\ \E ties \in {"asc", "desc"} :
           LET flags == getExistingFlags(WindowQuery(window), ties)
           IN  IF Len(flags) = 0
               THEN /\ run' = [run EXCEPT !.pc = "running"]
                    /\ task' = [t \in DOMAIN task |-> [task[t] EXCEPT !.pc = "pending"]]
               ELSE /\ run' = [run EXCEPT !.pc = "returned", !.returned = flags]
                    /\ UNCHANGED task
    /\ UNCHANGED <<orders, cancellationLogs, auditFlags, window, unit, visitLogs, storage, requests>>

SummaryAfterRules_Saves(allFlags) == IF Len(allFlags) > 0 THEN "saving" ELSE "returned"

\* what the summary does with the result of runFraudDetectionRules: it maps
\* the flags and goes on to the prompt; saveAuditFlags is not called
SummaryAfterRules(allFlags) == "returned"

\* the summary: runFraudDetectionRules returns and its flags are mapped to
\* rows in memory
SummaryRulesReturn ==
    /\ run.pc = "running"
    /\ run.caller = "summary"
    /\ AllFulfilled(task)
    /\ LET allFlags == AllFlags(task)
       IN  run' = [run EXCEPT !.pc = SummaryAfterRules(allFlags),
                              !.flags = allFlags, !.summary = Summary(allFlags),
                              !.returned = [i \in 1..Len(allFlags) |-> Generated(allFlags[i])]]
    /\ UNCHANGED <<orders, cancellationLogs, auditFlags, window, unit, task, visitLogs, storage, requests>>

\* the call has ended (returned or thrown)
Ended(r) ==
    \/ r.pc \in {"returned", "rejected", "saveFailed"}
    \/ r.pc = "done" /\ r.caller # "runFraudDetectionAction"

\* the next call arrives
NextCall ==
    /\ Ended(run)
    /\ run.call < MaxCalls
    /\ \E caller \in Callers :
           run' = [Idle EXCEPT !.caller = caller, !.call = run.call + 1]
    /\ task' = NoTasks
    /\ UNCHANGED <<orders, cancellationLogs, auditFlags, window, unit, visitLogs, storage, requests>>

InitCalls ==
    /\ \E d \in CallDatasets : orders = d.orders /\ cancellationLogs = d.logs
    /\ auditFlags = <<>>
    /\ window \in CallWindows
    /\ unit = NoUnit
    /\ task = NoTasks
    /\ \E caller \in Callers : run = [Idle EXCEPT !.caller = caller]
    /\ visitLogs = <<>>
    /\ storage = {}
    /\ requests = <<>>

\* saveAuditFlags called on its own: lists of no flag, of one flag, of one
\* full batch, and of lists that end with a batch of one flag
SaveSizes == {0, 1, BatchSize, BatchSize + 1, 2 * BatchSize + 1}

SaveInput(n) ==
    [i \in 1..n |->
        Flag("ORDER", ToString(i), "ABNORMAL_ORDER_SIZE",
             IF i % 2 = 0 THEN "HIGH" ELSE "WARN",
             [ratio |-> 300 + i], [ratio |-> 300 + i], ToString(i))]

\* rows saved earlier, one of them for a flag that is saved again and has
\* been resolved since
ExistingRows ==
    << Persisted(SaveInput(2 * BatchSize + 2)[2 * BatchSize + 2], 1),
       [Persisted(SaveInput(1)[1], 2) EXCEPT !.createdAt = MidDate, !.isResolved = TRUE] >>

\* saveAuditFlags(flags) up to its first await: it returns 0 for the empty
\* list
InitSave ==
    /\ orders = <<>>
    /\ cancellationLogs = <<>>
    /\ auditFlags \in {<<>>, ExistingRows}
    /\ window \in CallWindows
    /\ unit = NoUnit
    /\ task = NoTasks
    /\ \E n \in SaveSizes :
           run = [Idle EXCEPT !.caller = "saveAuditFlags",
                              !.pc = IF n = 0 THEN "done" ELSE "saving",
                              !.flags = SaveInput(n)]
    /\ visitLogs = <<>>
    /\ storage = {}
    /\ requests = <<>>

CallsNext ==
    \/ Next
    \/ ActionReadsFlags
    \/ SummaryReadsFlags
    \/ SummaryRulesReturn
    \/ NextCall

SpecCalls == (InitCalls \/ InitSave) /\ [][CallsNext]_vars

-----------------------------------------------------------------------------
(* Properties.  What the tables hold is counted here from the tables, not  *)
(* taken from the aggregator.                                              *)

Indices(s) == 1..Len(s)

\* the orders / cancellations of the window
WindowOrders == {i \in Indices(orders) : InRange(orders[i].createdAt, window)}
WindowLogs == {i \in Indices(cancellationLogs) : InRange(cancellationLogs[i].cancelledAt, window)}

\* the number of flags of one rule and severity for one entity
FlagCount(flags, ruleCode, entityId, severity) ==
    Cardinality({i \in Indices(flags) :
        /\ flags[i].ruleCode = ruleCode
        /\ flags[i].entityId = entityId
        /\ flags[i].severity = severity})

RowId(row) == IF "salesRepId" \in DOMAIN row THEN row.salesRepId ELSE row.outletId

\* C1 as stated, the cancel rate being cancelled orders / total orders: the
\* flags of one metrics row
RowClassifiedExactly(row, flags) ==
    LET c == row.cancelledOrders
        t == row.totalOrders
        high == FlagCount(flags, "HIGH_CANCEL_RATE", RowId(row), "HIGH")
        warn == FlagCount(flags, "HIGH_CANCEL_RATE", RowId(row), "WARN")
    IN  t >= 5 =>
            /\ 4 * c >= t => high = 1 /\ warn = 0                    \* rate >= 0.25
            /\ 20 * c >= 3 * t /\ 4 * c < t => high = 0 /\ warn = 1  \* 0.15 <= rate < 0.25
            /\ 20 * c < 3 * t => high = 0 /\ warn = 0                \* rate < 0.15

\* C1: HIGH_CANCEL_RATE classification.  For every sales rep and outlet with
\* at least 5 orders the check emits exactly one HIGH flag if
\* cancelled / total >= 0.25, exactly one WARN flag if it is in [0.15, 0.25)
\* and no flag if it is below 0.15; never both severities.
C1_CancelRateClassification ==
    unit.rule \in {"salesRep", "outlet"} =>
        \A i \in Indices(unit.metrics) : RowClassifiedExactly(unit.metrics[i], unit.flags)

\* the number of window orders of a sales rep / of an outlet
OrdersOfRep(id) == Cardinality({i \in WindowOrders : orders[i].salesRepId = id})
OrdersOfOutlet(id) == Cardinality({i \in WindowOrders : orders[i].outletId = id})

FlagsOn(flags, entityId) == {i \in Indices(flags) : flags[i].entityId = entityId}

\* C2: minimum-sample gate of the rate rules.  HIGH_CANCEL_RATE emits no
\* flag for a sales rep or outlet with fewer than 5 orders in the window,
\* END_OF_MONTH_SPIKE none when the window holds fewer than 5 orders,
\* PRE_SHIP_CANCEL none when it holds fewer than 5 cancellations.
C2_MinimumSampleGate ==
    /\ unit.rule = "salesRep" =>
           \A r \in Range(salesRepTable) :
               OrdersOfRep(r.id) < 5 => FlagsOn(unit.flags, r.id) = {}
    /\ unit.rule = "outlet" =>
           \A o \in Range(outletTable) :
               OrdersOfOutlet(o.id) < 5 => FlagsOn(unit.flags, o.id) = {}
    /\ unit.rule = "endOfMonth" =>
           (Cardinality(WindowOrders) < 5 => unit.flags = <<>>)
    /\ unit.rule = "preShip" =>
           (Cardinality(WindowLogs) < 5 => unit.flags = <<>>)

\* C2 witness: rep R1 has 4 orders in the window, all cancelled (and a fifth
\* before the window), the sales-rep check has run and flagged nothing on R1
C2_Witness ==
    /\ unit.rule = "salesRep"
    /\ OrdersOfRep("R1") = 4
    /\ \A i \in WindowOrders : orders[i].salesRepId = "R1" => IsCancelled(orders[i])
    /\ Cardinality({i \in Indices(orders) : orders[i].salesRepId = "R1"}) = 5
    /\ FlagsOn(unit.flags, "R1") = {}
    /\ Len(unit.flags) > 0

\* the outlet of an order id
OutletOfOrder(orderId) ==
    (CHOOSE o \in Range(orders) : o.id = orderId).outletId

\* C3: the minimum-sample gate covers ABNORMAL_ORDER_SIZE: no flag for an
\* order of an outlet with fewer than 5 orders in the window.
C3_AbnormalSampleGate ==
    unit.rule = "abnormal" =>
        \A i \in Indices(unit.flags) :
            OrdersOfOutlet(OutletOfOrder(unit.flags[i].orderId)) >= 5

\* the median of the window amounts of an outlet
OutletMedian(outletId) == calculateMedian(AmountsOf(OrdersInRange(window), outletId))

WindowOutlets == {orders[i].outletId : i \in WindowOrders}

CreatedAt == orders[1].createdAt
LastDay == DaysInMonth[CreatedAt.month]
Counted == unit.metrics.endOfMonthOrders = 1

\* C6 as stated: a creation date is counted as end-of-month if and only if
\* it falls within the last 5 calendar days of its month.
C6_LastFiveCalendarDays ==
    unit.rule = "endOfMonth" => (Counted <=> CreatedAt.day > LastDay - 5)

\* C6: a creation date is counted as end-of-month if and only if it falls
\* within the last 5 calendar days of its month, at any time of day, or is
\* the instant exactly 5 days before the last millisecond of the month
\* (23:59:59.999 of the sixth-last day); for every month length 28-31.
C6_EndOfMonthDate ==
    unit.rule = "endOfMonth" =>
        (Counted <=> \/ CreatedAt.day > LastDay - 5
                     \/ CreatedAt.day = LastDay - 5 /\ CreatedAt.ms = MsPerDay - 1)

\* C6 witness: an order created at the last millisecond of the sixth-last
\* day of a 28-day month has been analysed and counted
C6_Witness ==
    /\ unit.rule = "endOfMonth"
    /\ LastDay = 28
    /\ CreatedAt.day = LastDay - 5
    /\ CreatedAt.ms = MsPerDay - 1
    /\ Counted

\* C7: END_OF_MONTH_SPIKE.  With spikeRatio = (endOfMonthOrders / total) /
\* (5 / 30), a window of at least 5 orders gets one HIGH flag on SYSTEM if
\* spikeRatio >= 2.0, one WARN flag if 1.5 <= spikeRatio < 2.0, and no flag
\* otherwise.
C7_EndOfMonthSpike ==
    unit.rule = "endOfMonth" =>
        LET e == Cardinality({i \in WindowOrders : orders[i].createdAt = EndDate})
            t == Cardinality(WindowOrders)
            high == FlagCount(unit.flags, "END_OF_MONTH_SPIKE", "SYSTEM", "HIGH")
            warn == FlagCount(unit.flags, "END_OF_MONTH_SPIKE", "SYSTEM", "WARN")
        IN  /\ Len(unit.flags) = high + warn
            /\ t >= 5 =>
                   /\ 6 * e >= 2 * t => high = 1 /\ warn = 0
                   /\ 12 * e >= 3 * t /\ 6 * e < 2 * t => high = 0 /\ warn = 1
                   /\ 12 * e < 3 * t => high = 0 /\ warn = 0

\* C8: PRE_SHIP_CANCEL.  The pre-ship count is the number of window
\* cancellations with 0 <= hoursBeforeShipDate <= 24, the total counts every
\* window cancellation; with preShipPct = preShip / total and at least 5
\* cancellations there is one HIGH flag if preShipPct >= 0.20, one WARN
\* flag if 0.10 <= preShipPct < 0.20, and none otherwise.
C8_PreShipCancel ==
    unit.rule = "preShip" =>
        LET p == Cardinality({i \in WindowLogs :
                     /\ cancellationLogs[i].hoursBeforeShipDate # NoNumber
                     /\ cancellationLogs[i].hoursBeforeShipDate[1] >= 0
                     /\ cancellationLogs[i].hoursBeforeShipDate[1] <= 24})
            t == Cardinality(WindowLogs)
            high == FlagCount(unit.flags, "PRE_SHIP_CANCEL", "SYSTEM", "HIGH")
            warn == FlagCount(unit.flags, "PRE_SHIP_CANCEL", "SYSTEM", "WARN")
        IN  /\ unit.metrics.preShipCancellations = p
            /\ unit.metrics.totalCancellations = t
            /\ Len(unit.flags) = high + warn
            /\ t >= 5 =>
                   /\ 5 * p >= t => high = 1 /\ warn = 0
                   /\ 10 * p >= t /\ 5 * p < t => high = 0 /\ warn = 1
                   /\ 10 * p < t => high = 0 /\ warn = 0

\* C9: batch failure.  When the query of any one of the five checks has
\* failed, runFraudDetectionRules returns no result (it does not go on to
\* return or save flags with the failed check contributing none) and no
\* flag of the evaluation is persisted, whatever the other checks produced.
C9_BatchFailure ==
    (\E t \in DOMAIN task : task[t].pc = "rejected") =>
        /\ run.pc \in {"running", "rejected"}
        /\ run.flags = <<>>
        /\ auditFlags = <<>>

\* C9 witness: one check has failed, the other four have returned, one of
\* them with flags, and detectAndSaveFlags has thrown with nothing saved
C9_Witness ==
    /\ run.pc = "rejected"
    /\ Cardinality({t \in DOMAIN task : task[t].pc = "rejected"}) = 1
    /\ Cardinality({t \in DOMAIN task : task[t].pc = "fulfilled"}) = 4
    /\ \E t \in DOMAIN task : task[t].flags # <<>>
    /\ auditFlags = <<>>

\* C10: evidence completeness.  Every quantity interpolated into a flag's
\* message is a field of the flag's evidence payload (meta).
C10_EvidenceComplete ==
    \A i \in Indices(unit.flags) :
        DOMAIN unit.flags[i].message \subseteq DOMAIN unit.flags[i].meta

\* the visit rows of an id, and the flags of a rule linked to a visit
VisitsOf(id) == {i \in Indices(visitLogs) : visitLogs[i].id = id}
VisitFlags(id, ruleCode) ==
    {i \in Indices(auditFlags) :
        /\ "visitLogId" \in DOMAIN auditFlags[i]
        /\ auditFlags[i].visitLogId = id
        /\ auditFlags[i].ruleCode = ruleCode}

\* the distance of a check-in to its outlet's registered coordinate, 0 when
\* the outlet has none
ExpectedDistance(latitude, outletId) ==
    LET outlet == CHOOSE o \in Range(outletTable) : o.id = outletId
    IN  IF outlet.latitude = NoNumber THEN 0 ELSE Abs(latitude - outlet.latitude[1])

\* C11, the visit as created: its distance is the distance to the outlet's
\* coordinate (0 without one), its status PENDING up to 200 m, else FLAGGED
CreatedAsClaimed ==
    \A i \in Indices(visitLogs') :
        i > Len(visitLogs) =>
            LET v == visitLogs'[i]
            IN  /\ v.distance = ExpectedDistance(v.latitude, v.outletId)
                /\ v.status = IF v.distance <= 2000 THEN "PENDING" ELSE "FLAGGED"

\* C11, a check-in that has answered 201: one WARN DISTANCE_TOO_FAR flag
\* linked to its visit and carrying threshold 200 if it created the visit
\* FLAGGED, none if it created it PENDING
FlaggedAsClaimed ==
    \A i \in CheckInRequests :
        requests[i].response = 201 =>
            LET flags == VisitFlags(requests[i].visitId, "DISTANCE_TOO_FAR")
            IN  /\ Cardinality(VisitsOf(requests[i].visitId)) = 1
                /\ requests[i].distance = ExpectedDistance(requests[i].latitude, requests[i].outletId)
                /\ IF requests[i].distance > 2000
                   THEN /\ Cardinality(flags) = 1
                        /\ \A f \in flags :
                               /\ auditFlags[f].severity = "WARN"
                               /\ auditFlags[f].entityId = requests[i].visitId
                               /\ auditFlags[f].meta.threshold = 2000
                   ELSE flags = {}

\* C11: distance check at check-in.  A successful check-in creates the
\* visit PENDING if the distance to the outlet's registered coordinate is
\* <= 200 m (exactly 200 m included) and FLAGGED otherwise; a WARN
\* DISTANCE_TOO_FAR flag linked to the visit, with threshold 200, exists if
\* and only if the visit was created FLAGGED; without a registered
\* coordinate the distance is 0, the status PENDING and there is no flag.
C11_DistanceCheck == []FlaggedAsClaimed /\ [][CreatedAsClaimed]_vars

\* C11 witness: a check-in 250 m from outlet O1 has answered 201, its visit
\* was created FLAGGED and has its flag; another, at an outlet without
\* coordinate, has answered 201 with distance 0 and no flag
C11_Witness ==
    \E i, j \in CheckInRequests :
        /\ requests[i].response = 201 /\ requests[i].distance = 2500
        /\ requests[i].status = "FLAGGED"
        /\ VisitFlags(requests[i].visitId, "DISTANCE_TOO_FAR") # {}
        /\ requests[j].response = 201 /\ requests[j].outletId = "O2"
        /\ requests[j].distance = 0 /\ requests[j].status = "PENDING"
        /\ VisitFlags(requests[j].visitId, "DISTANCE_TOO_FAR") = {}

\* C12: visit status state machine.  A request handler changes the status
\* of a visit only from PENDING to VERIFIED or from PENDING to FLAGGED, so
\* a FLAGGED visit stays FLAGGED and a visit the external reviewer has set
\* to REJECTED stays REJECTED; only the reviewer sets REJECTED.
C12_StatusMachine ==
    [][\A k \in DOMAIN visitLogs :
          (k \in DOMAIN visitLogs' /\ visitLogs'[k].status # visitLogs[k].status) =>
              IF requests' = requests
              THEN visitLogs'[k].status = "REJECTED"
              ELSE /\ visitLogs[k].status = "PENDING"
                   /\ visitLogs'[k].status \in {"VERIFIED", "FLAGGED"}]_vars

\* the uploads that completed: the photo stored, the visit updated, 200
Completed == {i \in UploadRequests : requests[i].response = 200}

\* C13: duplicate-photo detection.  Whenever two distinct visits of one
\* sales rep have both completed an upload of identical bytes, the visit of
\* the upload that completed second has a HIGH DUPLICATE_PHOTO flag whose
\* evidence names the other visit, whatever the interleaving of the two
\* requests; and a DUPLICATE_PHOTO flag always names another visit of the
\* same sales rep.
C13_DuplicatePhoto ==
    /\ \A i, j \in Completed :
           ( /\ requests[i].visitId # requests[j].visitId
             /\ requests[i].visitLog.salesRepId = requests[j].visitLog.salesRepId
             /\ requests[i].bytes = requests[j].bytes
             /\ requests[i].finished < requests[j].finished )
           => \E f \in VisitFlags(requests[j].visitId, "DUPLICATE_PHOTO") :
                  /\ auditFlags[f].severity = "HIGH"
                  /\ auditFlags[f].meta.originalVisitId = requests[i].visitId
    /\ \A f \in Indices(auditFlags) :
           auditFlags[f].ruleCode = "DUPLICATE_PHOTO" =>
               \E u, v \in Range(visitLogs) :
                   /\ v.id = auditFlags[f].entityId
                   /\ u.id = auditFlags[f].meta.originalVisitId
                   /\ u.id # v.id
                   /\ u.salesRepId = v.salesRepId

\* the check-in that created a visit answered 201
CheckedInWith201(visitId) ==
    \E i \in CheckInRequests :
        requests[i].visitId = visitId /\ requests[i].response = 201

StatusByDistance(needCheckIn) ==
    \A i \in Completed :
        \A k \in DOMAIN visitLogs :
            visitLogs[k].id = requests[i].visitId =>
                /\ visitLogs[k].status =
                       IF visitLogs[k].distance <= 2000 THEN "VERIFIED" ELSE "FLAGGED"
                /\ ( /\ visitLogs[k].distance > 2000
                     /\ requests[i].duplicatePhoto # NULL
                     /\ (needCheckIn => CheckedInWith201(visitLogs[k].id)) )
                   => /\ VisitFlags(visitLogs[k].id, "DISTANCE_TOO_FAR") # {}
                      /\ VisitFlags(visitLogs[k].id, "DUPLICATE_PHOTO") # {}

LogsOfOrder(id) == {k \in Indices(cancellationLogs) : cancellationLogs[k].orderId = id}

\* C15: order/cancellation invariant.  After any sequence and interleaving
\* of order creations, PATCH status updates and cancel requests, every
\* CANCELLED order has exactly one cancellation record and every order of
\* another status has none.
C15_CancellationRecord ==
    \A k \in Indices(orders) :
        Cardinality(LogsOfOrder(orders[k].id)) =
            IF orders[k].status = "CANCELLED" THEN 1 ELSE 0

\* C16: order lifecycle.  The status of an order changes only CREATED ->
\* READY_TO_SHIP, CREATED -> CANCELLED, READY_TO_SHIP -> DELIVERED or
\* READY_TO_SHIP -> CANCELLED, so DELIVERED and CANCELLED are final, also
\* when a PATCH and a cancel request for one order run concurrently; and a
\* request that is rejected (400, 404) leaves orders and cancellation log
\* unchanged.
C16_OrderLifecycle ==
    [][/\ \A k \in Indices(orders) :
              (k \in Indices(orders') /\ orders'[k].status # orders[k].status) =>
                  << orders[k].status, orders'[k].status >> \in
                      { <<"CREATED", "READY_TO_SHIP">>, <<"CREATED", "CANCELLED">>,
                        <<"READY_TO_SHIP", "DELIVERED">>, <<"READY_TO_SHIP", "CANCELLED">> }
       /\ (\E i \in Indices(requests') :
               /\ requests'[i].kind \in {"patch", "cancel"}
               /\ requests'[i].response \in {400, 404}
               /\ (i \notin Indices(requests) \/ requests[i].response = 0))
          => (orders' = orders /\ cancellationLogs' = cancellationLogs)]_vars

Count(s, v) == Cardinality({i \in Indices(s) : s[i] = v})

\* t is s in ascending order
IsSortedCopy(t, s) ==
    /\ Len(t) = Len(s)
    /\ \A i \in 1..(Len(t) - 1) : t[i] <= t[i + 1]
    /\ \A v \in Range(s) \cup Range(t) : Count(t, v) = Count(s, v)

\* C17: median.  For a non-empty sequence the result is the middle element
\* of the sorted sequence when the length is odd and the average of the two
\* central elements when it is even; the median of the empty sequence is
\* 0; the sequence passed in is not modified.
C17_Median ==
    unit.rule = "calculateMedian" =>
        LET values == unit.arg
            n == Len(values)
            median == unit.metrics.median
        IN  /\ unit.metrics.values = values
            /\ n = 0 => median = 0
            /\ n > 0 =>
                  \A t \in [1..n -> Range(values)] :
                      IsSortedCopy(t, values) =>
                          IF n % 2 = 1
                          THEN median = t[(n + 1) \div 2]
                          ELSE 2 * median = t[n \div 2] + t[(n \div 2) + 1]

\* C17 witness: the median of an unsorted sequence of even length whose two
\* central elements differ has been computed; it is their average
C17_Witness ==
    /\ unit.rule = "calculateMedian"
    /\ unit.arg = <<500, 100, 200, 0>>
    /\ unit.metrics.median = 150

\* the orders getOrderMetrics was asked about
Asked ==
    {k \in Indices(orders) :
        /\ InRange(orders[k].createdAt, window)
        /\ unit.arg.salesRepId # NULL => orders[k].salesRepId = unit.arg.salesRepId
        /\ unit.arg.outletId # NULL => orders[k].outletId = unit.arg.outletId}

AskedIn(status) == {k \in Asked : orders[k].status = status}

RECURSIVE TotalAmount(_)
TotalAmount(S) ==
    IF S = {} THEN 0
    ELSE LET k == CHOOSE x \in S : TRUE
         IN  orders[k].totalAmount + TotalAmount(S \ {k})

Distance(a, b) == IF a < b THEN b - a ELSE a - b

\* C18 without the quotients: the counts, the revenue, the zero cases and
\* the range of cancelRate (in 1/10000)
CountsAndRevenue ==
    LET m == unit.metrics
    IN  /\ m.totalOrders = Cardinality(Asked)
        /\ m.createdOrders = Cardinality(AskedIn("CREATED"))
        /\ m.readyToShipOrders = Cardinality(AskedIn("READY_TO_SHIP"))
        /\ m.deliveredOrders = Cardinality(AskedIn("DELIVERED"))
        /\ m.cancelledOrders = Cardinality(AskedIn("CANCELLED"))
        /\ m.totalOrders = m.createdOrders + m.readyToShipOrders
                           + m.deliveredOrders + m.cancelledOrders
        /\ m.totalRevenue = TotalAmount(AskedIn("DELIVERED"))
        /\ m.totalOrders = 0 => m.cancelRate = 0
        /\ m.deliveredOrders = 0 => m.avgOrderValue = 0
        /\ 0 <= m.cancelRate /\ m.cancelRate <= 10000

\* C18: orderMetrics over a window.  totalOrders is the number of orders in
\* the window and the sum of the four status counts; revenue is the sum of
\* the amounts of the DELIVERED orders; cancelRate = cancelled / total, 0
\* when total is 0; avgOrderValue = revenue / delivered, 0 when delivered
\* is 0; cancelRate lies in [0, 1].
C18_OrderMetrics ==
    unit.rule = "orderMetrics" =>
        LET m == unit.metrics
        IN  /\ CountsAndRevenue
            /\ m.cancelRate * m.totalOrders = 10000 * m.cancelledOrders
            /\ m.avgOrderValue * m.deliveredOrders = m.totalRevenue

\* C18 as it holds: the same, cancelRate being cancelled / total rounded to
\* 4 decimals and avgOrderValue being revenue / delivered rounded to 2
\* decimals (to the cent).
C18_OrderMetricsRounded ==
    unit.rule = "orderMetrics" =>
        LET m == unit.metrics
        IN  /\ CountsAndRevenue
            /\ 2 * Distance(m.cancelRate * m.totalOrders, 10000 * m.cancelledOrders)
                   <= m.totalOrders
            /\ 2 * Distance(m.avgOrderValue * m.deliveredOrders, m.totalRevenue)
                   <= m.deliveredOrders

\* C18 witness: metrics of a window with orders of every status, some of
\* them outside the window, whose quotients are not whole
C18_Witness ==
    /\ unit.rule = "orderMetrics"
    /\ unit.arg.salesRepId = NULL /\ unit.arg.outletId = NULL
    /\ unit.metrics.totalOrders < Len(orders)
    /\ unit.metrics.createdOrders > 0 /\ unit.metrics.readyToShipOrders > 0
    /\ unit.metrics.deliveredOrders > 0 /\ unit.metrics.cancelledOrders > 0
    /\ unit.metrics.cancelRate * unit.metrics.totalOrders
           # 10000 * unit.metrics.cancelledOrders

InWindowOf(field, id) ==
    {k \in Indices(orders) :
        InRange(orders[k].createdAt, window) /\ orders[k][field] = id}

SortedByCancelRate(rows) ==
    \A i, j \in Indices(rows) : i < j => rows[i].cancelRate >= rows[j].cancelRate

\* one row, with the right count, for each of the entities ids, and no other
OneRowEach(rows, idField, field, ids) ==
    /\ Len(rows) = Cardinality(ids)
    /\ {rows[i][idField] : i \in Indices(rows)} = ids
    /\ \A i \in Indices(rows) :
           rows[i].totalOrders = Cardinality(InWindowOf(field, rows[i][idField]))

OutletRowsAsClaimed(rows) ==
    /\ OneRowEach(rows, "outletId", "outletId",
                  {o.id : o \in {x \in Range(outletTable) :
                                    x.isActive /\ InWindowOf("outletId", x.id) # {}}})
    /\ SortedByCancelRate(rows)

SalesRepRowsAsClaimed(rows) ==
    /\ OneRowEach(rows, "salesRepId", "salesRepId",
                  {r.id : r \in {x \in Range(salesRepTable) : x.isActive}})
    /\ SortedByCancelRate(rows)

\* C19: perOutletMetrics returns exactly one row for each active outlet
\* with at least one order in the window, sorted by cancel rate descending,
\* and two calls on an unchanged dataset and window return the same rows in
\* the same order; perSalesRepMetrics returns one row for every active sales
\* rep, those without orders included, sorted by cancel rate descending.
C19_PerEntityMetrics ==
    /\ unit.rule = "outletMetrics" =>
           /\ OutletRowsAsClaimed(unit.metrics[1])
           /\ OutletRowsAsClaimed(unit.metrics[2])
           /\ unit.metrics[1] = unit.metrics[2]
    /\ unit.rule = "salesRepMetrics" => SalesRepRowsAsClaimed(unit.metrics)

Ordered(rows) ==
    \A i \in 1..(Len(rows) - 1) :
        LET a == rows[i]
            b == rows[i + 1]
            Rank(x) == CHOOSE r \in 1..3 : <<"INFO", "WARN", "HIGH">>[r] = x.severity
        IN  \/ Rank(a) > Rank(b)
            \/ Rank(a) = Rank(b) /\ DateLeq(b.createdAt, a.createdAt)

FlagsAsClaimed(rangeNeedsBoth) ==
    unit.rule = "getExistingFlags" =>
        LET q == unit.arg
            rows == unit.metrics
            UseFrom == q.from # NoNumber /\ (rangeNeedsBoth => q.to # NoNumber)
            UseTo == q.to # NoNumber /\ (rangeNeedsBoth => q.from # NoNumber)
        IN  /\ \A i \in Indices(rows) :
                   /\ rows[i] \in Range(auditFlags)
                   /\ UseFrom => DateLeq(q.from[1], rows[i].createdAt)
                   /\ UseTo => DateLeq(rows[i].createdAt, q.to[1])
                   /\ q.entityType # NULL => rows[i].entityType = q.entityType
                   /\ q.severity # NULL => rows[i].severity = q.severity
                   /\ q.ruleCode # NULL => rows[i].ruleCode = q.ruleCode
                   /\ q.isResolved # NoNumber => rows[i].isResolved = q.isResolved[1]
            /\ Ordered(rows)
            /\ Len(rows) <= 500

\* C20: flag query.  getExistingFlags returns only flags that satisfy every
\* filter supplied (created at or after from, at or before to, of the
\* entity type, severity, rule code and resolved state asked for), ordered
\* by severity descending (HIGH, WARN, INFO) and then by creation time
\* descending, and never more than 500 of them.
C20_FlagQuery == FlagsAsClaimed(FALSE)

\* C20 as it holds: the same, the creation time being filtered only when
\* both from and to are supplied.
C20_FlagQueryBothEnds == FlagsAsClaimed(TRUE)

\* C20 witness: a query with a range and a resolved state over a table of
\* which more than 500 flags match has returned 500 flags, of several
\* severities, while the table holds flags outside the range and resolved
C20_Witness ==
    /\ unit.rule = "getExistingFlags"
    /\ unit.arg.from # NoNumber /\ unit.arg.to # NoNumber
    /\ unit.arg.isResolved = Some(FALSE)
    /\ Len(unit.metrics) = 500
    /\ unit.metrics[1].severity = "HIGH" /\ unit.metrics[500].severity = "INFO"
    /\ \E f \in Range(auditFlags) : f.isResolved
    /\ \E f \in Range(auditFlags) : ~InRange(f.createdAt, Period)

-----------------------------------------------------------------------------
\* runFraudDetectionRules has returned its RuleResult to detectAndSaveFlags
Returned == run.pc \in {"saving", "saveFailed", "done"}

\* the system-wide rules whose minimum-sample gate is not met over the window
SkippedRules ==
    {rule \in {"END_OF_MONTH_SPIKE", "PRE_SHIP_CANCEL"} :
        \/ /\ rule = "END_OF_MONTH_SPIKE"
           /\ analyzeEndOfMonthSpike(window).totalOrdersInPeriod < MIN_ORDERS_FOR_ANALYSIS
        \/ /\ rule = "PRE_SHIP_CANCEL"
           /\ analyzePreShipCancellations(window, PRE_SHIP_CANCEL_HOURS).totalCancellations
                  < MIN_ORDERS_FOR_ANALYSIS}

\* an entry of the result or a line of the trace that names the rule
Names(entry, rule) == "ruleCode" \in DOMAIN entry /\ entry.ruleCode = rule

\* C21: whenever a rule is suppressed because its minimum-sample gate is not
\* met, the evaluation result or the trace of the evaluation records that the
\* rule was skipped, so that the caller can tell the skip from an evaluation
\* that found nothing; the skip is not raised as a failure.
C21_SkipObservable ==
    Returned =>
        \A rule \in SkippedRules :
            \/ \E i \in 1..Len(run.flags) : Names(run.flags[i], rule)
            \/ \E i \in 1..Len(ConsoleLog(run, window)) : Names(ConsoleLog(run, window)[i], rule)

-----------------------------------------------------------------------------
\* the row is the stored form of the flag
IsCopyOf(row, flag) ==
    row = ([id |-> row.id, createdAt |-> row.createdAt, isResolved |-> row.isResolved]
               @@ flag)

\* the number of rows of a table that store the flag
Copies(table, flag) == Cardinality({i \in Indices(table) : IsCopyOf(table[i], flag)})

\* a call that saves: detectAndSaveFlags, alone or under
\* runFraudDetectionAction, and saveAuditFlags on its own
Saves(r) == r.caller # "summary" /\ r.pc \in {"saving", "saveFailed", "done", "returned"}

\* in the middle of saveAuditFlags and after it, the last created rows of
\* the table are the first created flags of the input, in order, and after
\* a successful save created is flags.length
SavedOnce ==
    Saves(run) =>
        LET base == Len(auditFlags) - run.created
        IN  /\ base >= 0
            /\ \A k \in 1..run.created : IsCopyOf(auditFlags[base + k], run.flags[k])
            /\ run.pc \in {"done", "returned"} => run.created = Len(run.flags)

\* a step leaves the rows of the table as they are, adds at most one batch,
\* and a batch adds one copy of each of its flags
Additive ==
    /\ Len(auditFlags) <= Len(auditFlags')
    /\ SubSeq(auditFlags', 1, Len(auditFlags)) = auditFlags
    /\ Len(auditFlags') - Len(auditFlags) <= BatchSize
    /\ \A k \in Indices(run.flags) :
           Copies(auditFlags', run.flags[k]) =
               Copies(auditFlags, run.flags[k])
               + (IF run.pc = "saving" /\ run'.created >= k /\ k > run.created
                  THEN 1 ELSE 0)

\* C22: flag persistence is additive and complete.  A successful
\* saveAuditFlags(flags) persists every input flag exactly once, in batches
\* of at most 50, and returns flags.length; no step updates or deletes an
\* existing flag; every successful detectAndSaveFlags over an unchanged
\* dataset and window adds one more copy of each detected flag, so that
\* after n runs the store holds n copies (never more copies than calls).
C22_AdditivePersistence ==
    /\ [](SavedOnce /\ \A k \in Indices(run.flags) :
                          Copies(auditFlags, run.flags[k])
                              <= run.call + Copies(ExistingRows, run.flags[k]))
    /\ [][Additive]_vars

\* C22 witness: the second of two successful detectAndSaveFlags calls has
\* saved its flags, and the store holds two copies of each
C22_Witness ==
    /\ run.call = 2
    /\ run.caller = "detectAndSaveFlags"
    /\ run.pc = "done"
    /\ Len(run.flags) > 1
    /\ Len(auditFlags) = 2 * Len(run.flags)
    /\ \A k \in Indices(run.flags) : Copies(auditFlags, run.flags[k]) = 2

-----------------------------------------------------------------------------
\* the severity a rule gives to the exact quotient num / den, compared with
\* the thresholds warn and high, each a pair <<numerator, denominator>>
ExactSeverity(num, den, warn, high) ==
    IF num * high[2] >= high[1] * den THEN "HIGH"
    ELSE IF num * warn[2] >= warn[1] * den THEN "WARN"
    ELSE "NONE"

\* the severity of the flags of a rule on an entity
SeverityOf(flags, ruleCode, entityId) ==
    IF FlagCount(flags, ruleCode, entityId, "HIGH") > 0 THEN "HIGH"
    ELSE IF FlagCount(flags, ruleCode, entityId, "WARN") > 0 THEN "WARN"
    ELSE "NONE"

\* C23: severity decisions are made on unrounded values.  The severity that
\* HIGH_CANCEL_RATE, END_OF_MONTH_SPIKE and PRE_SHIP_CANCEL assign is the one
\* obtained by comparing the exact quotient of the reported counts with the
\* threshold: cancelled / total with 0.15 and 0.25, (endOfMonthOrders /
\* total) / (5 / 30) with 1.5 and 2, preShip / total with 0.10 and 0.20.
C23_SeverityOnUnrounded ==
    /\ unit.rule \in {"salesRep", "outlet"} =>
           \A i \in Indices(unit.metrics) :
               LET row == unit.metrics[i]
               IN  row.totalOrders >= MIN_ORDERS_FOR_ANALYSIS =>
                       SeverityOf(unit.flags, "HIGH_CANCEL_RATE", RowId(row))
                           = ExactSeverity(row.cancelledOrders, row.totalOrders,
                                           <<3, 20>>, <<1, 4>>)
    /\ unit.rule = "endOfMonth" =>
           (unit.metrics.totalOrdersInPeriod >= MIN_ORDERS_FOR_ANALYSIS =>
               SeverityOf(unit.flags, "END_OF_MONTH_SPIKE", "SYSTEM")
                   = ExactSeverity(30 * unit.metrics.endOfMonthOrders,
                                   5 * unit.metrics.totalOrdersInPeriod,
                                   <<3, 2>>, <<2, 1>>))
    /\ unit.rule = "preShip" =>
           (unit.metrics.totalCancellations >= MIN_ORDERS_FOR_ANALYSIS =>
               SeverityOf(unit.flags, "PRE_SHIP_CANCEL", "SYSTEM")
                   = ExactSeverity(unit.metrics.preShipCancellations,
                                   unit.metrics.totalCancellations,
                                   <<1, 10>>, <<1, 5>>))

-----------------------------------------------------------------------------
\* C24: every WARN ABNORMAL_ORDER_SIZE flag of an evaluation carries a ratio
\* r with 3 <= r < 5 and every HIGH one a ratio >= 5, also when orders are
\* created between the HIGH-threshold query and the WARN-threshold query of
\* the evaluation: no order is flagged WARN with a ratio that qualifies for
\* HIGH.
C24_AbnormalSeverityBands ==
    \A i \in Indices(task["abnormal"].flags) :
        LET flag == task["abnormal"].flags[i]
        IN  /\ flag.severity = "WARN" =>
                   /\ flag.meta.ratio >= 100 * ABNORMAL_ORDER_MULTIPLIER_WARN
                   /\ flag.meta.ratio < 100 * ABNORMAL_ORDER_MULTIPLIER_HIGH
            /\ flag.severity = "HIGH" =>
                   flag.meta.ratio >= 100 * ABNORMAL_ORDER_MULTIPLIER_HIGH

-----------------------------------------------------------------------------
\* C25: runFraudDetectionAction(from, to) returns the flags of the period it
\* just evaluated.  After it has saved the flags detected for the window,
\* the list it returns holds every flag it has just saved (unless the list
\* is cut at 500 rows), for every window, windows in the past included.
C25_ActionReturnsSaved ==
    (run.caller = "runFraudDetectionAction" /\ run.pc = "returned"
        /\ Len(run.returned) < Take) =>
        \A k \in Indices(run.flags) :
            \E j \in Indices(run.returned) : IsCopyOf(run.returned[j], run.flags[k])

-----------------------------------------------------------------------------
\* C26: resolved filter.  GET /api/flags with isResolved=false returns only
\* unresolved flags, with isResolved=true only resolved flags, and without
\* the parameter it applies no resolved filter (the rows returned are the
\* first 500 of the whole table).
C26_ResolvedFilter ==
    unit.rule = "GET /api/flags" =>
        LET rows == unit.metrics
            cap == IF Len(auditFlags) < Take THEN Len(auditFlags) ELSE Take
        IN  /\ unit.arg.isResolved = "false" =>
                   \A i \in Indices(rows) : ~rows[i].isResolved
            /\ unit.arg.isResolved = "true" =>
                   \A i \in Indices(rows) : rows[i].isResolved
            /\ unit.arg.isResolved = NULL => Len(rows) = cap

-----------------------------------------------------------------------------
\* the rule codes of the flags of a list
RuleCodesOf(flags) == {flags[i].ruleCode : i \in Indices(flags)}

\* C27: the five checks run concurrently and are joined before use.  Over an
\* unchanged dataset, whatever the order in which the checks complete, the
\* flag list runFraudDetectionRules returns is the list of the sales-rep
\* cancel-rate check, then the outlet cancel-rate check's, the end-of-month
\* spike check's, the pre-ship cancel check's and the abnormal-order
\* check's, and summary.totalFlags = highSeverity + warnSeverity +
\* infoSeverity = the number of flags.
C27_JoinedInFixedOrder ==
    Returned =>
        /\ run.flags =
               checkSalesRepCancelRates(getSalesRepMetrics(window))
               \o checkOutletCancelRates(getOutletMetrics(window))
               \o checkEndOfMonthSpike(analyzeEndOfMonthSpike(window))
               \o checkPreShipCancellations(
                      analyzePreShipCancellations(window, PRE_SHIP_CANCEL_HOURS))
               \o checkAbnormalOrders(
                      findAbnormalOrders(window, ABNORMAL_ORDER_MULTIPLIER_HIGH),
                      findAbnormalOrders(window, ABNORMAL_ORDER_MULTIPLIER_WARN))
        /\ run.summary.totalFlags = Len(run.flags)
        /\ run.summary.totalFlags =
               run.summary.highSeverity + run.summary.warnSeverity
               + run.summary.infoSeverity

\* C27 witness: the rules have returned flags of the four rule codes and
\* of both severities, every check having found something
C27_Witness ==
    /\ Returned
    /\ Cardinality(RuleCodesOf(run.flags)) = 4
    /\ \A t \in DOMAIN task : task[t].flags # <<>>
    /\ run.summary.highSeverity > 0
    /\ run.summary.warnSeverity > 0

\* ---- one photo per visit ----

\* the uploads for a visit that answered 200
Succeeded(visitId) ==
    {i \in UploadRequests : /\ requests[i].visitId = visitId
                            /\ requests[i].pc = "done"
                            /\ requests[i].response = 200}

\* a step in which an upload for a visit that has a stored photo arrives
ArrivesAtPhoto ==
    /\ Len(requests') = Len(requests) + 1
    /\ requests'[Len(requests')].kind = "upload"
    /\ FindUnique(visitLogs, requests'[Len(requests')].visitId) # <<>>
    /\ FindUnique(visitLogs, requests'[Len(requests')].visitId)[1].photoPath # NULL
    /\ validateFile(requests'[Len(requests')].contentType)

Conflict ==
    ArrivesAtPhoto =>
        /\ requests'[Len(requests')].pc = "done"
        /\ requests'[Len(requests')].response = 409
        /\ UNCHANGED <<visitLogs, auditFlags, storage>>

AtMostOneSucceeds ==
    \A visitId \in UploadVisitIds :
        /\ Cardinality(Succeeded(visitId)) <= 1
        /\ \A i \in Succeeded(visitId) :
               (\A j \in UploadRequests : requests[j].pc = "done") =>
                   /\ FindUnique(visitLogs, visitId)[1].photoPath = requests[i].path
                   /\ FindUnique(visitLogs, visitId)[1].photoSha256 = requests[i].photoSha256

\* C28: an upload for a visit that already has a stored photo answers 409 and
\* changes neither the visit nor the flags; of the uploads for one visit, in
\* any interleaving, at most one answers 200, and the visit ends with the
\* path and hash of that upload
C28_OnePhotoPerVisit == []AtMostOneSucceeds /\ [][Conflict]_vars

\* the sequential half of C28 alone: the 409 and its frame
C28_ConflictOnly == [][Conflict]_vars

\* an upload answered 409 exists
C28_ConflictSeen ==
    \E i \in UploadRequests : requests[i].pc = "done" /\ requests[i].response = 409

\* ---- the summary writes nothing ----

SummaryStep == run.caller = "summary" /\ run'.caller = "summary"

\* C29: a summary request (the route and generateAISummaryAction alike)
\* reads the stored flags and, finding none for the period, evaluates the
\* rules in memory: no step of any summary call changes the stored audit
\* flags, orders, cancellation logs or visits
C29_SummaryWritesNothing ==
    [][SummaryStep => UNCHANGED <<auditFlags, orders, cancellationLogs, visitLogs>>]_vars

\* the second summary in a row has evaluated the rules and holds generated
\* flags, and no flag is stored
C29_Witness ==
    /\ run.caller = "summary"
    /\ run.call = MaxCalls
    /\ run.pc = "returned"
    /\ Len(run.flags) > 0
    /\ Len(run.returned) = Len(run.flags)
    /\ \A i \in 1..Len(run.returned) : run.returned[i].id = "generated"
    /\ auditFlags = <<>>

\* ---- order numbers ----

NumberedToday(table) ==
    Cardinality({k \in DOMAIN table :
                    /\ Len(table[k].orderNumber) >= 12
                    /\ SubSeq(table[k].orderNumber, 1, 12) = "ORD-" \o DateStr})

UniqueNumbers ==
    \A k, j \in DOMAIN orders : k # j => orders[k].orderNumber # orders[j].orderNumber

\* a step that creates an order gives it the number after the orders
\* numbered for the day before the step
NumberedNext ==
    Len(orders') = Len(orders) + 1 =>
        orders'[Len(orders')].orderNumber =
            "ORD-" \o DateStr \o "-" \o PadStart4(NumberedToday(orders) + 1)

\* C30: in any interleaving of POST /api/orders requests of one day no two
\* created orders have the same order number, and each created order has
\* the suffix one more than the number of orders numbered for the day
\* before it
C30_UniqueOrderNumbers == []UniqueNumbers /\ [][NumberedNext]_vars

====
